---- MODULE Spec2Model ----
(***************************************************************************)
(* Model of the run pipeline of internal/runner/runner.go: Run, its        *)
(* helpers (executeSteps, installTampermonkey, computeVisualHash,          *)
(* writeManifest, the NDJSON logger) and the collaborators it drives       *)
(* (filesystem, automation driver, browser context).                       *)
(*                                                                         *)
(* One call of Run is one behaviour.  Every call the code makes to a       *)
(* collaborator that can fail is a nondeterministic choice between its     *)
(* outcomes; a run may take at most MaxFaults non-nominal outcomes.        *)
(***************************************************************************)
EXTENDS Integers, Sequences, FiniteSets, TLC

VARIABLES
    input,    \* the Options value the caller passed to Run
    opts,     \* Run's own copy of it (Run assigns opts.ScriptPath)
    pc,       \* position of Run in its body
    err,      \* what Run returned: "running", "nil", or the error text
    log,      \* lines of logs/runner.ndjson, in file order
    fs,       \* files and directories the run has created
    sess,     \* automation driver, browser context and page
    loc,      \* local variables of Run
    stepIdx,  \* loop index i of executeSteps (0-based)
    trail,    \* positions of Run's body executed so far, in order
    faults,   \* number of non-nominal collaborator outcomes taken so far
    env       \* what a helper called on its own reads and writes outside Run

vars == <<input, opts, pc, err, log, fs, sess, loc, stepIdx, trail, faults,
          env>>

----------------------------------------------------------------------------
(* Bounds *)

MaxFaults == 2      \* non-nominal outcomes per run
MaxRunSteps == 1    \* length of Options.Steps in a full run
MaxSteps == 3       \* length of the step list given to executeSteps alone

----------------------------------------------------------------------------
(* Strings that the code inspects character by character *)

Chars(s) ==
    CASE s = "" -> << >>
      [] s = "Tampermonkey (init-script)" ->
            <<"T","a","m","p","e","r","m","o","n","k","e","y"," ","(",
              "i","n","i","t","-","s","c","r","i","p","t",")">>
      [] s = "tampermonkey" ->
            <<"t","a","m","p","e","r","m","o","n","k","e","y">>
      [] s = "Violentmonkey" ->
            <<"V","i","o","l","e","n","t","m","o","n","k","e","y">>
      [] s = "click" -> <<"c","l","i","c","k">>
      [] s = "Fill" -> <<"F","i","l","l">>
      [] s = "fill" -> <<"f","i","l","l">>
      [] s = "waitForSelector" ->
            <<"w","a","i","t","F","o","r","S","e","l","e","c","t","o","r">>
      [] s = "waitforselector" ->
            <<"w","a","i","t","f","o","r","s","e","l","e","c","t","o","r">>
      [] s = "wait" -> <<"w","a","i","t">>
      [] s = "assert-text" -> <<"a","s","s","e","r","t","-","t","e","x","t">>
      [] s = "assert-equals" ->
            <<"a","s","s","e","r","t","-","e","q","u","a","l","s">>
      [] s = "assert-contains" ->
            <<"a","s","s","e","r","t","-","c","o","n","t","a","i","n","s">>
      [] s = "assert-exists" ->
            <<"a","s","s","e","r","t","-","e","x","i","s","t","s">>
      [] s = "assert-not-exists" ->
            <<"a","s","s","e","r","t","-","n","o","t","-","e","x","i","s","t","s">>
      [] s = "assert-attr" -> <<"a","s","s","e","r","t","-","a","t","t","r">>
      [] s = "hover" -> <<"h","o","v","e","r">>

LowerChar(c) ==
    CASE c = "T" -> "t"
      [] c = "V" -> "v"
      [] c = "F" -> "f"
      [] c = "S" -> "s"
      [] OTHER -> c

\* strings.ToLower
ToLower(cs) == [k \in 1..Len(cs) |-> LowerChar(cs[k])]

\* strings.Contains
Contains(cs, sub) ==
    \E k \in 0..(Len(cs) - Len(sub)) :
        \A j \in 1..Len(sub) : cs[k + j] = sub[j]

\* fmt.Sprintf("step-%d", n)
StepScope(n) ==
    CASE n = 1 -> "step-1"
      [] n = 2 -> "step-2"
      [] n = 3 -> "step-3"
      [] n = 4 -> "step-4"
      [] n = 5 -> "step-5"
      [] n = 6 -> "step-6"

----------------------------------------------------------------------------
(* The NDJSON logger *)

LogLine(level, scope, msg) == [level |-> level, scope |-> scope, msg |-> msg]

\* ndjsonLogger.info / ndjsonLogger.warn: one line appended and flushed
info(l, scope, msg) == Append(l, LogLine("info", scope, msg))
warn(l, scope, msg) == Append(l, LogLine("warn", scope, msg))

----------------------------------------------------------------------------
(* Inputs *)

Bools == {FALSE, TRUE}

StepActions ==
    {"click", "Fill", "waitForSelector", "wait", "assert-text", "assert-equals",
     "assert-contains", "assert-exists", "assert-not-exists", "assert-attr",
     "hover"}

Steps(n) == UNION {[1..k -> [Action : StepActions]] : k \in 0..n}

DefaultOptions ==
    [TargetURL     |-> "https://example.test/toggle",
     ScriptPath    |-> "script.user.js",
     ScriptContent |-> "",
     ScriptURL     |-> "",
     ScriptGitRepo |-> "",
     ScriptGitPath |-> "",
     ExtensionDir  |-> "",
     Engine        |-> "Violentmonkey",
     CaptureTrace  |-> FALSE,
     CaptureHAR    |-> FALSE,
     ReplayHAR     |-> "",
     BaselineDir   |-> "",
     VisualDiffThreshold |-> 0,
     BlockedHosts  |-> << >>,
     Steps         |-> << >>]

\* every combination of target URL and script sources
SourceOptions ==
    {[DefaultOptions EXCEPT !.TargetURL = u, !.ScriptPath = p,
                            !.ScriptContent = c, !.ScriptURL = r,
                            !.ScriptGitRepo = g, !.ScriptGitPath = gp] :
        u \in {"", "https://example.test/toggle"},
        p \in {"", "script.user.js"},
        c \in {"", "// ==UserScript=="},
        r \in {"", "https://example.test/s.user.js"},
        g \in {"", "https://example.test/repo.git"},
        gp \in {"", "s.user.js"}}

\* every combination of engine and capture settings
SessionOptions ==
    {[DefaultOptions EXCEPT !.ExtensionDir = x, !.Engine = e,
                            !.CaptureTrace = t, !.CaptureHAR = h,
                            !.ReplayHAR = rh, !.BaselineDir = b] :
        x \in {"", "extensions/tampermonkey-mv3"},
        e \in {"Tampermonkey (init-script)", "Violentmonkey"},
        t \in Bools, h \in Bools,
        rh \in {"", "replay.har"},
        b \in {"", "baselines"}}

\* every step list of a full run
FlowOptions ==
    {[DefaultOptions EXCEPT !.Steps = s] : s \in Steps(MaxRunSteps)}

RunOptions == SourceOptions \cup SessionOptions \cup FlowOptions

----------------------------------------------------------------------------
(* State before Run is called *)

NoFiles ==
    [runDir     |-> FALSE,     \* <workspace>/runs/<run_id>/{artifacts,logs}
     logFile    |-> "none",    \* logs/runner.ndjson: none, open, closed
     tmpFiles   |-> 0,         \* temporary files created by script resolution
     profileRemoved |-> FALSE, \* os.RemoveAll(profileDir) was called
     fetched    |-> FALSE,     \* an HTTP GET of ScriptURL was issued
     cloned     |-> FALSE,     \* a git clone of ScriptGitRepo was run
     manifest   |-> "none",    \* run.json: none, partial, written
     screenshot |-> FALSE,     \* artifacts/screenshot.png
     diffImg    |-> FALSE,     \* artifacts/visual-diff.png
     webp       |-> FALSE,     \* artifacts/run.webp
     traceZip   |-> FALSE,     \* artifacts/trace.zip
     video      |-> FALSE,     \* artifacts/video/page.webm
     baselineWritten |-> FALSE, \* <BaselineDir>/screenshot.png was written
     har        |-> FALSE]     \* artifacts/network.har

NoSession ==
    [driverInstalled |-> FALSE,
     driver     |-> "none",    \* playwright.Run: none, running, stopped
     ctx        |-> "none",    \* persistent context: none, open, closed
     listening  |-> FALSE,     \* the OnResponse listener is registered
     page       |-> "none",    \* page: none, open, closed
     initScript |-> FALSE,     \* AddInitScript registered the script
     tmInstall  |-> "none",    \* installTampermonkey: none, ok, failed
     navigated  |-> FALSE,
     calls      |-> << >>,     \* page calls of the default toggle flow
     tracing    |-> "none"]    \* none, started, stopped

EmptyManifest ==
    [Screenshot |-> "", VisualHash |-> "", VisualDiff |-> FALSE,
     VisualDiffImg |-> "", VisualChanged |-> FALSE, VideoWebM |-> "",
     VideoWebP |-> "", TraceZip |-> "", HAR |-> "", ReplayHAR |-> "",
     Engine |-> "", ExtensionDir |-> "", NetworkIssues |-> FALSE]

NoLocals ==
    [installed     |-> FALSE,
     attempted     |-> << >>,  \* steps executeSteps has run, with their outcome
     visualHash    |-> "",
     visualDiff    |-> FALSE,
     visualDiffImg |-> "",
     visualChanged |-> FALSE,  \* visualDiffPixels > 0
     video         |-> FALSE,  \* page.Video() returned a video
     traceDefer    |-> FALSE,  \* the deferred StopChunk closure is registered
     videoPath     |-> "",
     webpPath      |-> "",
     converting    |-> FALSE,  \* convertToWebP waits for the transcoder
     built         |-> FALSE,  \* the Manifest value has been built
     manifest      |-> EmptyManifest,
     result        |-> FALSE]  \* Run returned a Result holding the Manifest

\* a call of Run reads and writes nothing but what fs and sess describe
NoEnv == [kind |-> "run"]

Init ==
    /\ input \in RunOptions
    /\ opts = input
    /\ pc = "validate"
    /\ err = "running"
    /\ log = << >>
    /\ fs = NoFiles
    /\ sess = NoSession
    /\ loc = NoLocals
    /\ stepIdx = 0
    /\ trail = << >>
    /\ faults = 0
    /\ env = NoEnv

----------------------------------------------------------------------------
(* Returning from Run: the deferred calls run in reverse order of their     *)
(* registration, then the caller sees the error value.                     *)

\* the deferred closure of lines 690-696: ctx.Tracing().StopChunk(tracePath)
DeferTraceStop(st, ok) ==
    IF ~st.loc.traceDefer THEN st
    ELSE IF ok
         THEN [st EXCEPT !.log = info(st.log, "trace", "trace captured"),
                         !.fs.traceZip = TRUE,
                         !.sess.tracing = "stopped"]
         ELSE [st EXCEPT !.log = warn(st.log, "trace", "stop failed")]

\* a return that runs only the deferred logFile.Close()
DeferCloseLogOnly(st) ==
    [st EXCEPT !.fs.logFile = IF st.fs.logFile = "open" THEN "closed" ELSE @]

\* defer ctx.Close() (line 601), defer pw.Stop() (568), defer logFile.Close() (547);
\* closing the context saves what it was launched to record (lines 579-595):
\* the video of its pages under artifacts/video and, with CaptureHAR, the HAR
DeferClose(st) ==
    [st EXCEPT
        !.fs.video = IF st.sess.ctx = "open" THEN TRUE ELSE @,
        !.fs.har = IF st.sess.ctx = "open" THEN opts.CaptureHAR ELSE @,
        !.sess.ctx = IF st.sess.ctx = "open" THEN "closed" ELSE @,
        !.sess.page = IF st.sess.page = "open" THEN "closed" ELSE @,
        !.sess.driver = IF st.sess.driver = "running" THEN "stopped" ELSE @,
        !.fs.logFile = IF st.fs.logFile = "open" THEN "closed" ELSE @]

\* the state a return statement leaves behind
Return(st, e, traceStopOk) ==
    LET r == DeferClose(DeferTraceStop(st, traceStopOk)) IN
    /\ err' = e
    /\ pc' = "done"
    /\ log' = r.log
    /\ fs' = r.fs
    /\ sess' = r.sess
    /\ loc' = r.loc

\* the state after a statement that does not return
Goto(st, next) ==
    /\ err' = err
    /\ pc' = next
    /\ log' = st.log
    /\ fs' = st.fs
    /\ sess' = st.sess
    /\ loc' = st.loc

Here == [log |-> log, fs |-> fs, sess |-> sess, loc |-> loc]

\* Run executes the statements at `label`, taking `cost` non-nominal outcomes
At(label, cost) ==
    /\ pc = label
    /\ faults + cost <= MaxFaults
    /\ faults' = faults + cost
    /\ input' = input
    /\ env' = env
    /\ trail' = IF trail # << >> /\ trail[Len(trail)] = label
                THEN trail ELSE Append(trail, label)

----------------------------------------------------------------------------
(* Run, lines 492-504: validation *)

\* ValidateError without the TargetURL check of lines 492-494
ValidateErrorNoTarget(o) ==
    IF o.ScriptPath = "" THEN "ScriptPath is required" ELSE ""

ValidateError(o) ==
    IF o.TargetURL = "" THEN "TargetURL is required"
    ELSE IF o.ScriptPath = "" THEN "ScriptPath is required"
    ELSE IF o.ScriptPath = "" /\ o.ScriptContent = "" /\ o.ScriptURL = ""
            /\ o.ScriptGitRepo = ""
         THEN "provide ScriptPath, ScriptContent, ScriptURL, or ScriptGitRepo"
    ELSE ""

RunValidate ==
    /\ At("validate", 0)
    /\ opts' = opts
    /\ stepIdx' = stepIdx
    /\ IF ValidateError(opts) # ""
       THEN Return(Here, ValidateError(opts), TRUE)
       ELSE Goto(Here, "resolve")

----------------------------------------------------------------------------
(* Run, lines 505-529: the script sources are tried in the order inline    *)
(* content, remote URL, git repository, each only while ScriptPath is      *)
(* still empty.  An outcome is the error (or ""), the resulting            *)
(* ScriptPath and what was created on the way.                             *)

Resolved(path) ==
    [err |-> "", path |-> path, tmp |-> 0, fetched |-> FALSE,
     cloned |-> FALSE, cost |-> 0]

\* lines 505-515
ResolveInline(o) ==
    IF o.ScriptPath = "" /\ o.ScriptContent # ""
    THEN {[Resolved("") EXCEPT !.err = "create temp", !.cost = 1],
          [Resolved("") EXCEPT !.err = "write temp", !.tmp = 1, !.cost = 1],
          [Resolved("tmp/userscript-1.user.js") EXCEPT !.tmp = 1]}
    ELSE {Resolved(o.ScriptPath)}

\* ResolveURL fetching whenever ScriptURL is set, ScriptPath empty or not
ResolveURLAlways(r, o) ==
    IF r.err = "" /\ o.ScriptURL # ""
    THEN {[r EXCEPT !.err = "fetch script", !.fetched = TRUE, !.cost = @ + 1],
          [r EXCEPT !.path = "tmp/userscript-url-1.user.js", !.fetched = TRUE,
                    !.tmp = @ + 1]}
    ELSE {r}

\* lines 516-522 and fetchScript, lines 1167-1189
ResolveURL(r, o) ==
    IF r.err = "" /\ r.path = "" /\ o.ScriptURL # ""
    THEN {[r EXCEPT !.err = "fetch script", !.fetched = TRUE, !.cost = @ + 1],
          [r EXCEPT !.path = "tmp/userscript-url-1.user.js", !.fetched = TRUE,
                    !.tmp = @ + 1]}
    ELSE {r}

\* lines 523-529 and fetchScriptFromGit, lines 1191-1217
ResolveGit(r, o) ==
    IF r.err = "" /\ r.path = "" /\ o.ScriptGitRepo # ""
    THEN IF o.ScriptGitPath = ""
         THEN {[r EXCEPT !.err = "git fetch"]}
         ELSE {[r EXCEPT !.err = "git fetch", !.cloned = TRUE, !.tmp = @ + 1,
                         !.cost = @ + 1],
               [r EXCEPT !.path = "tmp/userscript-git-1.user.js",
                         !.cloned = TRUE, !.tmp = @ + 2]}
    ELSE {r}

ResolveScript(o) ==
    UNION {UNION {ResolveGit(u, o) : u \in ResolveURL(r, o)} :
             r \in ResolveInline(o)}

RunResolve ==
    /\ pc = "resolve"
    /\ stepIdx' = stepIdx
    /\ \E r \in ResolveScript(opts) :
         LET st == [Here EXCEPT !.fs.tmpFiles = r.tmp,
                                !.fs.fetched = r.fetched,
                                !.fs.cloned = r.cloned] IN
         /\ At("resolve", r.cost)
         /\ opts' = [opts EXCEPT !.ScriptPath = r.path]
         /\ IF r.err # "" THEN Return(st, r.err, TRUE) ELSE Goto(st, "mkdirs")

----------------------------------------------------------------------------
(* Run, lines 531-548: run directory and log file *)

RunCreateDirs ==
    /\ pc = "mkdirs"
    /\ UNCHANGED <<opts, stepIdx>>
    /\ \/ /\ At("mkdirs", 1)
          /\ Return(Here, "mkdir artifacts", TRUE)
       \/ /\ At("mkdirs", 1)
          /\ Return([Here EXCEPT !.fs.runDir = TRUE], "mkdir logs", TRUE)
       \/ /\ At("mkdirs", 1)
          /\ Return([Here EXCEPT !.fs.runDir = TRUE], "create log", TRUE)
       \/ /\ At("mkdirs", 0)
          /\ Goto([Here EXCEPT !.fs.runDir = TRUE, !.fs.logFile = "open"],
                  "parse")

----------------------------------------------------------------------------
(* Run, lines 550-557: userscript.Parse and os.ReadFile of the script *)

RunParseScript ==
    /\ pc = "parse"
    /\ UNCHANGED <<opts, stepIdx>>
    /\ \/ /\ At("parse", 1)
          /\ Return(Here, "parse userscript", TRUE)
       \/ /\ At("parse", 1)
          /\ Return(Here, "read script", TRUE)
       \/ /\ At("parse", 0)
          /\ Goto(Here, "driver")

----------------------------------------------------------------------------
(* Run, lines 559-568: playwright.Install and playwright.Run *)

RunInstallDriver ==
    /\ pc = "driver"
    /\ UNCHANGED <<opts, stepIdx>>
    /\ LET st == [Here EXCEPT
                    !.log = info(log, "runner", "installing playwright browsers")]
       IN
       \/ /\ At("driver", 1)
          /\ Return(st, "playwright install", TRUE)
       \/ /\ At("driver", 1)
          /\ Return([st EXCEPT !.sess.driverInstalled = TRUE],
                    "playwright run", TRUE)
       \/ /\ At("driver", 0)
          /\ Goto([st EXCEPT !.sess.driverInstalled = TRUE,
                             !.sess.driver = "running"], "launch")

----------------------------------------------------------------------------
(* Run, lines 570-627: profile directory, launch of the persistent         *)
(* context, extension detection, HAR replay, response listener, new page   *)

\* lines 603-609: detectExtensionID found an id or not
DetectExtension(l, o, found) ==
    IF o.ExtensionDir = "" THEN l
    ELSE IF found THEN info(l, "extension", "detected extension id")
    ELSE warn(l, "extension",
              "could not detect extension id from service workers")

\* lines 611-617: ctx.RouteFromHAR
RouteFromHAR(l, o, ok) ==
    IF o.ReplayHAR = "" THEN l
    ELSE IF ok THEN info(l, "har", "replaying from HAR")
    ELSE warn(l, "har", "route from HAR failed")

RunLaunch ==
    /\ pc = "launch"
    /\ UNCHANGED <<opts, stepIdx>>
    /\ LET l0 == IF opts.ExtensionDir # ""
                 THEN info(log, "runner", "attempting MV3 extension load")
                 ELSE log
           st == [Here EXCEPT !.log = l0, !.fs.profileRemoved = TRUE]
       IN
       \/ /\ At("launch", 1)
          /\ Return(st, "launch context", TRUE)
       \/ \E found \in IF opts.ExtensionDir = "" THEN {TRUE} ELSE Bools,
             routed \in IF opts.ReplayHAR = "" THEN {TRUE} ELSE Bools,
             paged \in Bools :
            LET cost == (IF found THEN 0 ELSE 1) + (IF routed THEN 0 ELSE 1)
                        + (IF paged THEN 0 ELSE 1)
                l2 == RouteFromHAR(DetectExtension(l0, opts, found), opts, routed)
                up == [st EXCEPT !.log = l2, !.sess.ctx = "open",
                                 !.sess.listening = TRUE]
            IN
            /\ At("launch", cost)
            /\ IF paged
               THEN Goto([up EXCEPT !.sess.page = "open"], "inject")
               ELSE Return(up, "new page", TRUE)

----------------------------------------------------------------------------
(* installTampermonkey, lines 1058-1081: the outcomes are the log it       *)
(* leaves and the boolean it returns                                       *)

\* installTampermonkey with one failure path that returns without logging
installTampermonkeySilent(l) ==
    {[ok |-> FALSE, log |-> l],
     [ok |-> FALSE, log |-> warn(l, "tm", "open userscript.html failed")],
     [ok |-> FALSE, log |-> warn(l, "tm", "file input not found")],
     [ok |-> FALSE, log |-> warn(l, "tm", "set file failed")],
     [ok |-> TRUE,  log |-> info(l, "tm", "script dropped into TM import")]}

installTampermonkey(l) ==
    {[ok |-> FALSE, log |-> warn(l, "tm", "new page failed")],
     [ok |-> FALSE, log |-> warn(l, "tm", "open userscript.html failed")],
     [ok |-> FALSE, log |-> warn(l, "tm", "file input not found")],
     [ok |-> FALSE, log |-> warn(l, "tm", "set file failed")],
     [ok |-> TRUE,  log |-> info(l, "tm", "script dropped into TM import")]}

\* line 632: the condition under which the extension install is attempted
AttemptsInstall(o) ==
    Contains(ToLower(Chars(o.Engine)), Chars("tampermonkey"))

\* Run, lines 629-634
RunSelectStrategy ==
    /\ pc = "inject"
    /\ UNCHANGED <<opts, stepIdx>>
    /\ IF AttemptsInstall(opts)
       THEN \E r \in installTampermonkey(log) :
              /\ At("inject", 0)
              /\ Goto([Here EXCEPT !.log = r.log,
                                   !.loc.installed = r.ok,
                                   !.sess.tmInstall =
                                       IF r.ok THEN "ok" ELSE "failed"],
                      "initscript")
       ELSE /\ At("inject", 0)
            /\ Goto(Here, "initscript")

\* an init script failure that aborts the run
InitScriptFailureFatal(st) ==
    Return([st EXCEPT !.log = warn(st.log, "runner",
                                   "init script injection failed; continuing")],
           "add init script", TRUE)

\* what Run does when page.AddInitScript returned an error (lines 636-638)
InitScriptFailure(st) ==
    Goto([st EXCEPT !.log = warn(st.log, "runner",
                                 "init script injection failed; continuing")],
         "navigate")

\* a run that never registers the init script
SkipsInitScriptAlways(l) == TRUE

\* line 635: the init script is skipped when the install reported success
SkipsInitScript(l) == l.installed

\* Run, lines 635-639: page.AddInitScript unless the install succeeded
RunInitScript ==
    /\ pc = "initscript"
    /\ UNCHANGED <<opts, stepIdx>>
    /\ IF SkipsInitScript(loc)
       THEN /\ At("initscript", 0)
            /\ Goto(Here, "navigate")
       ELSE \/ /\ At("initscript", 0)
               /\ Goto([Here EXCEPT !.sess.initScript = TRUE], "navigate")
            \/ /\ At("initscript", 1)
               /\ InitScriptFailure(Here)

----------------------------------------------------------------------------
(* Run, lines 641-648: page.Goto *)

RunNavigate ==
    /\ pc = "navigate"
    /\ UNCHANGED <<opts, stepIdx>>
    /\ LET st == [Here EXCEPT !.log = info(log, "browser", "navigating")] IN
       \/ /\ At("navigate", 1)
          /\ Return(st, "navigate", TRUE)
       \/ /\ At("navigate", 0)
          /\ Goto([st EXCEPT !.sess.navigated = TRUE], "flow")

----------------------------------------------------------------------------
(* executeSteps, lines 1084-1165.  For the lower-cased action of a step,   *)
(* the outcomes of one loop iteration: whether the step's page operation   *)
(* (and comparison) passed, and the log lines the iteration writes.        *)

Is(a, name) == a = Chars(name)

Failed(scope, msg) == [passed |-> FALSE, lines |-> <<LogLine("warn", scope, msg)>>]
Passed(scope, msg) == [passed |-> TRUE, lines |-> <<LogLine("info", scope, msg)>>]

StepOutcomes(a, scope) ==
    IF Is(a, "click")
    THEN {Failed(scope, "click failed"), Passed(scope, "click ok")}
    ELSE IF Is(a, "fill")
    THEN {Failed(scope, "fill failed"), Passed(scope, "fill ok")}
    ELSE IF Is(a, "waitforselector")
    THEN {Failed(scope, "waitForSelector failed"),
          Passed(scope, "selector present")}
    ELSE IF Is(a, "wait")
    THEN {Passed(scope, "waited")}
    ELSE IF Is(a, "assert-text") \/ Is(a, "assert-equals")
    THEN {Failed(scope, "assert-text failed"),
          Failed(scope, "assert-text mismatch"),
          Passed(scope, "assert-text ok")}
    ELSE IF Is(a, "assert-contains")
    THEN {Failed(scope, "assert-contains failed"),
          Failed(scope, "assert-contains mismatch"),
          Passed(scope, "assert-contains ok")}
    ELSE IF Is(a, "assert-exists")
    THEN {Failed(scope, "assert-exists failed"),
          Passed(scope, "assert-exists ok")}
    ELSE IF Is(a, "assert-not-exists")
    THEN {Failed(scope, "assert-not-exists failed"),
          Passed(scope, "assert-not-exists ok")}
    ELSE IF Is(a, "assert-attr")
    THEN {Failed(scope, "assert-attr failed"),
          Failed(scope, "assert-attr mismatch"),
          Passed(scope, "assert-attr ok")}
    ELSE {Failed(scope, "unknown action")}

\* a loop that stops at the first failing step
NextStepAbortOnFailure(i, n, passed) == IF passed THEN i + 1 ELSE n

\* the position of the loop after iteration i (0-based) of n
NextStep(i, n, passed) == i + 1

\* one iteration of the loop of executeSteps
ExecuteStep ==
    /\ pc = "steps"
    /\ stepIdx < Len(opts.Steps)
    /\ opts' = opts
    /\ At("steps", 0)
    /\ LET step == opts.Steps[stepIdx + 1]
           scope == StepScope(stepIdx + 1)
       IN \E r \in StepOutcomes(ToLower(Chars(step.Action)), scope) :
            /\ stepIdx' = NextStep(stepIdx, Len(opts.Steps), r.passed)
            /\ Goto([Here EXCEPT
                       !.log = log \o r.lines,
                       !.loc.attempted = Append(@, [step |-> stepIdx + 1,
                                                    passed |-> r.passed])],
                    "steps")

\* a flow that continues at the visual comparison, skipping the screenshot
AfterFlowSkipsScreenshot == "visual"

\* where Run continues after the flow: line 668, then the screenshot
AfterFlow == "screenshot"

\* the loop of executeSteps is over
ExecuteStepsReturn ==
    /\ pc = "steps"
    /\ stepIdx >= Len(opts.Steps)
    /\ UNCHANGED <<opts, stepIdx>>
    /\ At("steps", 0)
    /\ Goto(Here, AfterFlow)

----------------------------------------------------------------------------
(* Run, lines 650-668: the flow steps, or the default toggle *)

\* a default flow that clicks only when the sentinel was found
DefaultFlowCallsClickIfFound(found) ==
    IF found THEN <<"WaitForSelector", "Click">> ELSE <<"WaitForSelector">>

\* the page calls of lines 654-665: the wait, then the click whatever the
\* wait returned
DefaultFlowCalls(found) == <<"WaitForSelector", "Click">>

RunFlow ==
    /\ pc = "flow"
    /\ opts' = opts
    /\ IF Len(opts.Steps) > 0
       THEN /\ At("flow", 0)
            /\ stepIdx' = 0
            /\ Goto(Here, "steps")
       ELSE \E found \in Bools, clicked \in Bools :
              LET l1 == IF found
                        THEN info(log, "assert", "toggle button present")
                        ELSE warn(log, "assert", "toggle button not found")
                  l2 == IF clicked
                        THEN info(l1, "action", "toggled dark mode")
                        ELSE warn(l1, "action", "click toggle failed")
              IN
              /\ At("flow", (IF found THEN 0 ELSE 1)
                            + (IF clicked THEN 0 ELSE 1))
              /\ stepIdx' = stepIdx
              /\ Goto([Here EXCEPT !.log = l2,
                         !.sess.calls = @ \o DefaultFlowCalls(found)],
                      AfterFlow)

----------------------------------------------------------------------------
(* filepath.Base on the paths Run builds; Base("") is ".". *)

Base(path) ==
    CASE path = "" -> "."
      [] path = "artifacts/screenshot.png" -> "screenshot.png"
      [] path = "artifacts/video/page.webm" -> "page.webm"
      [] path = "artifacts/run.webp" -> "run.webp"
      [] path = "artifacts/visual-diff.png" -> "visual-diff.png"
      [] path = "artifacts/trace.zip" -> "trace.zip"
      [] path = "artifacts/network.har" -> "network.har"

----------------------------------------------------------------------------
(* Run, lines 670-676: page.Screenshot *)

\* a screenshot failure that aborts the run
ScreenshotFailureFatal(st) ==
    Return([st EXCEPT !.log = warn(st.log, "artifact", "screenshot failed")],
           "screenshot", TRUE)

\* what Run does when page.Screenshot returned an error (lines 674-676)
ScreenshotFailure(st) ==
    Goto([st EXCEPT !.log = warn(st.log, "artifact", "screenshot failed")],
         "visual")

RunScreenshot ==
    /\ pc = "screenshot"
    /\ UNCHANGED <<opts, stepIdx>>
    /\ \/ /\ At("screenshot", 0)
          /\ Goto([Here EXCEPT !.fs.screenshot = TRUE], "visual")
       \/ /\ At("screenshot", 1)
          /\ ScreenshotFailure(Here)

----------------------------------------------------------------------------
(* computeDiffImage, lines 937-991: the outcomes are the returned image     *)
(* name, whether pixels changed, whether visual-diff.png was written, and  *)
(* the log                                                                 *)

DiffResult(l, img, changed, written, cost) ==
    [log |-> l, diffImg |-> img, changed |-> changed, written |-> written,
     cost |-> cost]

computeDiffImage(l) ==
    {DiffResult(warn(l, "visual", "decode baseline failed"), "", FALSE, FALSE, 1),
     DiffResult(warn(l, "visual", "decode current failed"), "", FALSE, FALSE, 1),
     DiffResult(warn(l, "visual", "baseline/current size mismatch"),
                "", FALSE, FALSE, 0),
     DiffResult(l, "", FALSE, FALSE, 0),
     DiffResult(warn(l, "visual", "write diff failed"), "", TRUE, FALSE, 1),
     DiffResult(warn(l, "visual", "encode diff failed"), "", TRUE, TRUE, 1),
     DiffResult(warn(l, "visual", "diff image generated"),
                Base("artifacts/visual-diff.png"), TRUE, TRUE, 0)}

(* computeVisualHash, lines 901-934.  `shot` tells whether screenshot.png  *)
(* exists; whether it can be read, and what the baseline directory holds,  *)
(* is the environment's choice.                                            *)

VisualResult(l, hash, diff, d, baseline, cost) ==
    [log |-> l, hash |-> hash, diff |-> diff, diffImg |-> d.diffImg,
     changed |-> d.changed, written |-> d.written, baseline |-> baseline,
     cost |-> cost + d.cost]

NoDiff == DiffResult(<< >>, "", FALSE, FALSE, 0)

computeVisualHash(l, o, shot) ==
    {VisualResult(l, "", FALSE, NoDiff, FALSE, IF shot THEN 1 ELSE 0)}
    \cup
    (IF ~shot THEN {}
     ELSE IF o.BaselineDir = ""
     THEN {VisualResult(l, "sha256", FALSE, NoDiff, FALSE, 0)}
     ELSE {VisualResult(warn(l, "visual", "baseline dir create failed"),
                        "sha256", FALSE, NoDiff, FALSE, 1),
           VisualResult(info(l, "visual", "baseline created"),
                        "sha256", FALSE, NoDiff, TRUE, 0),
           VisualResult(warn(l, "visual", "baseline read failed"),
                        "sha256", FALSE, NoDiff, FALSE, 1),
           VisualResult(info(l, "visual", "screenshot matches baseline"),
                        "sha256", FALSE, NoDiff, FALSE, 0)}
          \cup
          {VisualResult(d.log, "sha256", TRUE, d, FALSE, 0) :
             d \in computeDiffImage(
                     warn(l, "visual", "screenshot hash mismatch vs baseline"))})

\* Run, line 678
RunVisual ==
    /\ pc = "visual"
    /\ UNCHANGED <<opts, stepIdx>>
    /\ \E v \in computeVisualHash(log, opts, fs.screenshot) :
         /\ At("visual", v.cost)
         /\ Goto([Here EXCEPT !.log = v.log,
                              !.fs.diffImg = v.written,
                              !.fs.baselineWritten = v.baseline,
                              !.loc.visualHash = v.hash,
                              !.loc.visualDiff = v.diff,
                              !.loc.visualDiffImg = v.diffImg,
                              !.loc.visualChanged = v.changed],
                 "closepage")

----------------------------------------------------------------------------
(* Run, lines 680-697: page.Video, page.Close, and with CaptureTrace the   *)
(* start of tracing and the deferred StopChunk                             *)

RunClosePage ==
    /\ pc = "closepage"
    /\ UNCHANGED <<opts, stepIdx>>
    /\ \E video \in Bools, closed \in Bools,
          started \in IF opts.CaptureTrace THEN Bools ELSE {TRUE} :
         LET l1 == IF closed THEN log ELSE warn(log, "runner", "close page")
             l2 == IF started THEN l1 ELSE warn(l1, "trace", "start failed")
         IN
         /\ At("closepage", (IF video THEN 0 ELSE 1) + (IF closed THEN 0 ELSE 1)
                            + (IF started THEN 0 ELSE 1))
         /\ Goto([Here EXCEPT
                    !.log = l2,
                    !.loc.video = video,
                    !.sess.page = IF closed THEN "closed" ELSE @,
                    !.sess.tracing =
                        IF opts.CaptureTrace /\ started THEN "started" ELSE @,
                    !.loc.traceDefer = opts.CaptureTrace],
                 "video")

----------------------------------------------------------------------------
(* Run, lines 703-718: video.Path and convertToWebP.  convertToWebP       *)
(* (804-846) starts ffmpeg or img2webp with exec.Command and waits in      *)
(* cmd.Run for the process to exit.                                        *)

RunVideo ==
    /\ pc = "video"
    /\ ~loc.converting
    /\ UNCHANGED <<opts, stepIdx>>
    /\ \/ /\ ~loc.video
          /\ At("video", 0)
          /\ Goto(Here, "closectx")
       \/ /\ loc.video
          /\ At("video", 1)
          /\ Goto([Here EXCEPT !.log =
                     warn(log, "artifact", "video path error")], "closectx")
       \/ /\ loc.video
          /\ At("video", 0)
          /\ Goto([Here EXCEPT
                     !.fs.video = TRUE,
                     !.loc.videoPath = "artifacts/video/page.webm",
                     !.loc.webpPath = "artifacts/run.webp",
                     !.loc.converting = TRUE], "video")

\* the transcoder process exits, and cmd.Run returns: lines 712-717
TranscoderExits ==
    /\ pc = "video"
    /\ loc.converting
    /\ UNCHANGED <<opts, stepIdx>>
    /\ \/ /\ At("video", 0)
          /\ Goto([Here EXCEPT
                     !.log = info(log, "artifact", "webp created"),
                     !.fs.webp = TRUE,
                     !.loc.converting = FALSE], "closectx")
       \/ /\ At("video", 1)
          /\ Goto([Here EXCEPT
                     !.log = warn(log, "artifact", "webp conversion failed"),
                     !.loc.webpPath = "",
                     !.loc.converting = FALSE], "closectx")

----------------------------------------------------------------------------
(* Run, lines 720-722: ctx.Close; the HAR being recorded is written when   *)
(* the context closes                                                      *)

RunCloseContext ==
    /\ pc = "closectx"
    /\ UNCHANGED <<opts, stepIdx>>
    /\ \/ /\ At("closectx", 0)
          /\ Goto([Here EXCEPT !.sess.ctx = "closed",
                               !.sess.page = "closed",
                               !.fs.har = opts.CaptureHAR], "manifest")
       \/ /\ At("closectx", 1)
          /\ Goto([Here EXCEPT !.log =
                     warn(log, "runner", "close context")], "manifest")

----------------------------------------------------------------------------
(* Run, lines 724-751: the Manifest value, and writeManifest (848-857)     *)

\* harNameIfExists / traceNameIfExists, lines 999-1013
NameIfExists(exists, path) == IF exists THEN Base(path) ELSE ""

BuildManifest(o, l, f, issues) ==
    [Screenshot    |-> Base("artifacts/screenshot.png"),
     VisualHash    |-> l.visualHash,
     VisualDiff    |-> l.visualDiff,
     VisualDiffImg |-> l.visualDiffImg,
     VisualChanged |-> l.visualChanged,
     VideoWebM     |-> Base(l.videoPath),
     VideoWebP     |-> Base(l.webpPath),
     TraceZip      |-> NameIfExists(f.traceZip, "artifacts/trace.zip"),
     HAR           |-> NameIfExists(f.har, "artifacts/network.har"),
     ReplayHAR     |-> o.ReplayHAR,
     Engine        |-> o.Engine,
     ExtensionDir  |-> o.ExtensionDir,
     NetworkIssues |-> issues]

\* writeManifest: os.Create fails, Encode fails, or run.json is written
writeManifest == {"none", "partial", "written"}

\* a failed write that sends Run back to build and write the Manifest again
ManifestFailureRetries(st) ==
    Goto([st EXCEPT !.log = warn(st.log, "runner", "write manifest failed")],
         "manifest")

\* what Run does when writeManifest returned an error (lines 749-751)
ManifestFailure(st) ==
    Goto([st EXCEPT !.log = warn(st.log, "runner", "write manifest failed")],
         "finish")

RunManifest ==
    /\ pc = "manifest"
    /\ UNCHANGED <<opts, stepIdx>>
    /\ \E issues \in Bools, w \in writeManifest :
         LET l1 == IF issues THEN warn(log, "network", "issues detected")
                   ELSE log
             st == [Here EXCEPT !.log = l1,
                                !.loc.built = TRUE,
                                !.loc.manifest =
                                    BuildManifest(opts, loc, fs, issues),
                                !.fs.manifest = w]
         IN
         /\ At("manifest", (IF issues THEN 1 ELSE 0)
                           + (IF w = "written" THEN 0 ELSE 1))
         /\ IF w = "written" THEN Goto(st, "finish") ELSE ManifestFailure(st)

----------------------------------------------------------------------------
(* Run, lines 753-769: the Result is returned with a nil error; the        *)
(* deferred calls run                                                      *)

RunFinish ==
    /\ pc = "finish"
    /\ UNCHANGED <<opts, stepIdx>>
    /\ \E stopped \in IF loc.traceDefer THEN Bools ELSE {TRUE} :
         /\ At("finish", IF stopped THEN 0 ELSE 1)
         /\ Return([Here EXCEPT !.log = info(log, "runner", "run finished"),
                                !.loc.result = TRUE],
                   "nil", stopped)

Next ==
    \/ RunValidate
    \/ RunResolve
    \/ RunCreateDirs
    \/ RunParseScript
    \/ RunInstallDriver
    \/ RunLaunch
    \/ RunSelectStrategy
    \/ RunInitScript
    \/ RunNavigate
    \/ RunFlow
    \/ ExecuteStep
    \/ ExecuteStepsReturn
    \/ RunScreenshot
    \/ RunVisual
    \/ RunClosePage
    \/ RunVideo
    \/ TranscoderExits
    \/ RunCloseContext
    \/ RunManifest
    \/ RunFinish

Spec == Init /\ [][Next]_vars

----------------------------------------------------------------------------
(* executeSteps on its own: called on an open, navigated page with any     *)
(* step list of up to MaxSteps steps                                       *)

InitFlow ==
    /\ input \in {[DefaultOptions EXCEPT !.Steps = s] : s \in Steps(MaxSteps)}
    /\ opts = input
    /\ pc = "steps"
    /\ err = "running"
    /\ log = << >>
    /\ fs = [NoFiles EXCEPT !.runDir = TRUE, !.logFile = "open"]
    /\ sess = [NoSession EXCEPT !.driverInstalled = TRUE, !.driver = "running",
                                !.ctx = "open", !.listening = TRUE,
                                !.page = "open", !.initScript = TRUE,
                                !.navigated = TRUE]
    /\ loc = NoLocals
    /\ stepIdx = 0
    /\ trail = << >>
    /\ faults = 0
    /\ env = NoEnv

NextFlow ==
    \/ ExecuteStep
    \/ ExecuteStepsReturn

SpecFlow == InitFlow /\ [][NextFlow]_vars

----------------------------------------------------------------------------
(* executeSteps, lines 1113-1136 and 1150-1160: the assertion steps, on a  *)
(* page whose element text and attribute value are known                   *)

MaxText == 3    \* length of an element's text or attribute value

TextAlphabet == {" ", "a", "b"}

Texts(n) == UNION {[1..k -> TextAlphabet] : k \in 0..n}

\* unicode.IsSpace, on the alphabet
IsSpace(c) == c = " "

TrimLeft(cs) ==
    LET first == {k \in 1..Len(cs) : ~IsSpace(cs[k])} IN
    IF first = {} THEN << >>
    ELSE SubSeq(cs, CHOOSE k \in first : \A j \in first : k <= j, Len(cs))

TrimRight(cs) ==
    LET last == {k \in 1..Len(cs) : ~IsSpace(cs[k])} IN
    IF last = {} THEN << >>
    ELSE SubSeq(cs, 1, CHOOSE k \in last : \A j \in last : k >= j)

\* a trim that leaves trailing white space in place
TrimSpaceLeftOnly(cs) == TrimLeft(cs)

\* strings.TrimSpace
TrimSpace(cs) == TrimRight(TrimLeft(cs))

AssertActions == {"assert-text", "assert-equals", "assert-contains",
                  "assert-attr"}

\* one iteration of the loop for an assertion step: page.TextContent or
\* page.GetAttribute returned (content, error iff ~readable)
AssertOutcome(a, value, readable, content, scope) ==
    IF Is(a, "assert-text") \/ Is(a, "assert-equals")
    THEN IF ~readable THEN Failed(scope, "assert-text failed")
         ELSE IF TrimSpace(content) # value
              THEN Failed(scope, "assert-text mismatch")
              ELSE Passed(scope, "assert-text ok")
    ELSE IF Is(a, "assert-contains")
    THEN IF ~readable THEN Failed(scope, "assert-contains failed")
         ELSE IF ~Contains(TrimSpace(content), value)
              THEN Failed(scope, "assert-contains mismatch")
              ELSE Passed(scope, "assert-contains ok")
    ELSE IF ~readable THEN Failed(scope, "assert-attr failed")
         ELSE IF content # value
              THEN Failed(scope, "assert-attr mismatch")
              ELSE Passed(scope, "assert-attr ok")

\* executeSteps called with one assertion step on an open page
InitAssert ==
    /\ \E a \in AssertActions, v \in Texts(MaxText - 1) :
          input = [DefaultOptions EXCEPT
                      !.Steps = <<[Action |-> a, Value |-> v]>>]
    /\ opts = input
    /\ pc = "steps"
    /\ err = "running"
    /\ log = << >>
    /\ fs = [NoFiles EXCEPT !.runDir = TRUE, !.logFile = "open"]
    /\ sess = [NoSession EXCEPT !.driverInstalled = TRUE, !.driver = "running",
                                !.ctx = "open", !.listening = TRUE,
                                !.page = "open", !.initScript = TRUE,
                                !.navigated = TRUE]
    /\ loc = NoLocals
    /\ stepIdx = 0
    /\ trail = << >>
    /\ faults = 0
    /\ \E readable \in Bools, content \in Texts(MaxText) :
          env = [kind |-> "page", readable |-> readable, content |-> content]

\* one iteration of the loop of executeSteps, for an assertion step
ExecuteAssert ==
    /\ pc = "steps"
    /\ stepIdx < Len(opts.Steps)
    /\ opts' = opts
    /\ At("steps", 0)
    /\ LET step == opts.Steps[stepIdx + 1]
           r == AssertOutcome(ToLower(Chars(step.Action)), step.Value,
                              env.readable, env.content,
                              StepScope(stepIdx + 1))
       IN /\ stepIdx' = NextStep(stepIdx, Len(opts.Steps), r.passed)
          /\ Goto([Here EXCEPT
                     !.log = log \o r.lines,
                     !.loc.attempted = Append(@, [step |-> stepIdx + 1,
                                                  passed |-> r.passed])],
                  "steps")

NextAssert ==
    \/ ExecuteAssert
    \/ ExecuteStepsReturn

SpecAssert == InitAssert /\ [][NextAssert]_vars

----------------------------------------------------------------------------
(* computeVisualHash and computeDiffImage, lines 901-991, on the bytes of  *)
(* the screenshot and of the baseline image                                *)

MaxRuns == 2    \* runs, one after another, that share a baseline directory

\* a pixel as a PNG stores it: 8-bit colour and alpha, not premultiplied
Opaque(r, g, b) == [R |-> r, G |-> g, B |-> b, A |-> 255]

Pixels ==
    {Opaque(0, 0, 0), Opaque(1, 0, 0), Opaque(200, 0, 0),
     [R |-> 200, G |-> 0, B |-> 0, A |-> 128], Opaque(0, 0, 255)}

Widths == {1, 2}

\* the contents of a file: no file, zero bytes, bytes that are not a PNG,
\* or the encoding number `enc` of an image of height 1
Absent == [kind |-> "absent"]
EmptyFile == [kind |-> "empty"]
Garbage == [kind |-> "garbage"]
Png(px, enc) == [kind |-> "png", w |-> Len(px), h |-> 1, px |-> px, enc |-> enc]

Images == UNION {[1..w -> Pixels] : w \in Widths}

\* two PNG files can hold the same pixels in different bytes
Files ==
    {EmptyFile, Garbage} \cup {Png(px, 0) : px \in Images}
    \cup {Png(<<Opaque(0, 0, 0)>>, 1)}

FewFiles ==
    {EmptyFile, Png(<<Opaque(0, 0, 0)>>, 0), Png(<<Opaque(200, 0, 0)>>, 0),
     Png(<<Opaque(0, 0, 0), Opaque(0, 0, 0)>>, 0)}

Thresholds == {-1, 0, 100, 255, 300}

\* fmt.Sprintf("%x", sha256.Sum256(data)): equal exactly for equal bytes
Sha256(data) == [sha256 |-> data]

\* color.NRGBA.RGBA: one 16-bit alpha-premultiplied channel
Channel16(v, a) == ((v * 257) * a) \div 255

absDiff(a, b) == IF a > b THEN a - b ELSE b - a

\* lines 962-967: the test of one pixel
PixelChanged(b, c, thr) ==
    \/ absDiff(Channel16(b.R, b.A), Channel16(c.R, c.A)) > thr
    \/ absDiff(Channel16(b.G, b.A), Channel16(c.G, c.A)) > thr
    \/ absDiff(Channel16(b.B, b.A), Channel16(c.B, c.A)) > thr

\* the one call that fails during a comparison, if any
VisualFaults ==
    {"none", "readShot", "mkdir", "stat", "write", "writeTruncated",
     "readBase", "create", "encode"}

\* a result that names the heatmap whatever happened
DiffOfAlwaysNamed(l, img, changed, total, created) ==
    [log |-> l, diffImg |-> "visual-diff.png", changed |-> changed,
     ratio |-> IF changed = 0 THEN <<0, 1>> ELSE <<changed, total>>,
     created |-> created]

\* what computeDiffImage returns and leaves in the artifacts directory
DiffOf(l, img, changed, total, created) ==
    [log |-> l, diffImg |-> img, changed |-> changed,
     ratio |-> IF changed = 0 THEN <<0, 1>> ELSE <<changed, total>>,
     created |-> created]

\* computeDiffImage(basePNG, currentPNG, artifactsDir, logger, threshold)
computeDiffImageOf(basePNG, currentPNG, l, threshold, fault) ==
    IF basePNG.kind # "png"
    THEN DiffOf(warn(l, "visual", "decode baseline failed"), "", 0, 1, FALSE)
    ELSE IF currentPNG.kind # "png"
    THEN DiffOf(warn(l, "visual", "decode current failed"), "", 0, 1, FALSE)
    ELSE IF <<basePNG.w, basePNG.h>> # <<currentPNG.w, currentPNG.h>>
    THEN DiffOf(warn(l, "visual", "baseline/current size mismatch"),
                "", 0, 1, FALSE)
    ELSE
      LET total == basePNG.w * basePNG.h
          thr == IF threshold < 0 THEN 0 ELSE threshold
          changed == Cardinality({k \in 1..total :
                        PixelChanged(basePNG.px[k], currentPNG.px[k], thr)})
      IN IF changed = 0 THEN DiffOf(l, "", 0, 1, FALSE)
         ELSE IF fault = "create"
         THEN DiffOf(warn(l, "visual", "write diff failed"),
                     "", changed, total, FALSE)
         ELSE IF fault = "encode"
         THEN DiffOf(warn(l, "visual", "encode diff failed"),
                     "", changed, total, TRUE)
         ELSE DiffOf(warn(l, "visual", "diff image generated"),
                     Base("artifacts/visual-diff.png"), changed, total, TRUE)

VisualOf(l, hash, diff, d, baseline) ==
    [log |-> l, hash |-> hash, diff |-> diff, diffImg |-> d.diffImg,
     changed |-> d.changed, ratio |-> d.ratio, created |-> d.created,
     baseline |-> baseline]

NoDiffOf == DiffOf(<< >>, "", 0, 1, FALSE)

\* a stat that never finds the file
StatFailsAlways(file, fault) == TRUE

\* line 916: os.Stat(basePath) returned an error
StatFails(file, fault) == file.kind = "absent" \/ fault = "stat"

\* a write that leaves the file as it was
WriteFileKeeps(old, data, fault) == old

\* line 917: what basePath holds after os.WriteFile(basePath, data, 0o644),
\* which can fail before creating the file or after truncating it
WriteFile(old, data, fault) ==
    CASE fault = "write" -> old
      [] fault = "writeTruncated" -> EmptyFile
      [] OTHER -> data

\* a comparison that takes every pair of hashes to differ
HashMismatchAlways(baseHash, hash) == TRUE

\* line 927
HashMismatch(baseHash, hash) == baseHash # hash

\* computeVisualHash(screenshotPath, opts, artifactsDir, logger), where
\* `shot` is what screenshotPath holds and `baseline` what
\* BaselineDir/screenshot.png holds; the result carries what the baseline
\* file holds afterwards
computeVisualHashOf(shot, o, baseline, l, fault) ==
    IF shot.kind = "absent" \/ fault = "readShot" \/ shot.kind = "empty"
    THEN VisualOf(l, "", FALSE, NoDiffOf, baseline)
    ELSE IF o.BaselineDir = ""
    THEN VisualOf(l, Sha256(shot), FALSE, NoDiffOf, baseline)
    ELSE IF fault = "mkdir"
    THEN VisualOf(warn(l, "visual", "baseline dir create failed"),
                  Sha256(shot), FALSE, NoDiffOf, baseline)
    ELSE IF StatFails(baseline, fault)
    THEN VisualOf(info(l, "visual", "baseline created"),
                  Sha256(shot), FALSE, NoDiffOf,
                  WriteFile(baseline, shot, fault))
    ELSE IF fault = "readBase"
    THEN VisualOf(warn(l, "visual", "baseline read failed"),
                  Sha256(shot), FALSE, NoDiffOf, baseline)
    ELSE IF HashMismatch(Sha256(baseline), Sha256(shot))
    THEN LET d == computeDiffImageOf(baseline, shot,
                     warn(l, "visual", "screenshot hash mismatch vs baseline"),
                     o.VisualDiffThreshold, fault)
         IN VisualOf(d.log, Sha256(shot), TRUE, d, baseline)
    ELSE VisualOf(info(l, "visual", "screenshot matches baseline"),
                  Sha256(shot), FALSE, NoDiffOf, baseline)

(* Runs one after another against one baseline directory.  Each run is a   *)
(* call of Run that reached line 678 with its own log and artifacts        *)
(* directory; env keeps, per run, what the screenshot file held, what the  *)
(* baseline file held before the call, which call failed and the values    *)
(* computeVisualHash returned.                                             *)

VisualEnv(shots, left, baseline) ==
    [kind |-> "visual", shots |-> shots, left |-> left,
     baseline |-> baseline, hist |-> << >>]

InitVisualWith(o, e) ==
    /\ input = o
    /\ opts = input
    /\ pc = "visual"
    /\ err = "running"
    /\ log = << >>
    /\ fs = [NoFiles EXCEPT !.runDir = TRUE, !.logFile = "open"]
    /\ sess = [NoSession EXCEPT !.driverInstalled = TRUE, !.driver = "running",
                                !.ctx = "open", !.listening = TRUE,
                                !.page = "open", !.initScript = TRUE,
                                !.navigated = TRUE]
    /\ loc = NoLocals
    /\ stepIdx = 0
    /\ trail = << >>
    /\ faults = 0
    /\ env = e

\* one comparison, for every screenshot, baseline, threshold and setting
InitVisual ==
    \E d \in {"", "baselines"}, t \in Thresholds,
       b \in {Absent} \cup Files :
        InitVisualWith([DefaultOptions EXCEPT !.BaselineDir = d,
                                              !.VisualDiffThreshold = t],
                       VisualEnv({Absent} \cup Files, 1, b))

\* up to MaxRuns comparisons against a configured baseline directory
InitBaseline ==
    \E b \in {Absent} \cup FewFiles :
        InitVisualWith([DefaultOptions EXCEPT !.BaselineDir = "baselines"],
                       VisualEnv({Absent} \cup FewFiles, MaxRuns, b))

\* Run, line 678, of the next run
VisualRun ==
    /\ env.kind = "visual"
    /\ env.left > 0
    /\ \E shot \in env.shots, fault \in VisualFaults :
         LET v == computeVisualHashOf(shot, opts, env.baseline, << >>, fault)
         IN /\ log' = v.log
            /\ fs' = [fs EXCEPT !.screenshot = shot.kind # "absent",
                                !.diffImg = v.created]
            /\ loc' = [loc EXCEPT !.visualHash = v.hash,
                                  !.visualDiff = v.diff,
                                  !.visualDiffImg = v.diffImg,
                                  !.visualChanged = v.changed > 0]
            /\ env' = [env EXCEPT
                         !.left = @ - 1,
                         !.baseline = v.baseline,
                         !.hist = Append(@, [shot |-> shot,
                                             before |-> env.baseline,
                                             fault |-> fault,
                                             res |-> v])]
    /\ UNCHANGED <<input, opts, pc, err, sess, stepIdx, trail, faults>>

NextVisual == VisualRun

SpecVisual == InitVisual /\ [][NextVisual]_vars

SpecBaseline == InitBaseline /\ [][NextVisual]_vars

----------------------------------------------------------------------------
(* summarizeNetwork, lines 1015-1035, on the responses the session         *)
(* collected (lines 619-622) and the blocked-host list of the options      *)

MaxResponses == 2   \* responses collected during the session
MaxBlocked == 2     \* entries of Options.BlockedHosts

Statuses == {200, 399, 400, 404}

\* URLs and blocked-host entries, as characters: the first URL contains
\* two of the entries, the last none
Urls == {<<"a", ".", "b", "/">>, <<"b", "/">>, <<"c", "/">>}
Hosts == {<<"a", ".", "b">>, <<"b">>, <<"x">>}

SeqsUpTo(S, n) == UNION {[1..k -> S] : k \in 0..n}

\* fmt.Sprintf("status %d for %s", status, url)
StatusMsg(status, url) == <<"status ", status, " for ", url>>

\* fmt.Sprintf("blocked host seen: %s", url)
BlockedMsg(url) == <<"blocked host seen: ", url>>

\* lines 1024-1029: the inner loop over the blocked list
RECURSIVE BlockedIssues(_, _)
BlockedIssues(url, blocked) ==
    IF blocked = << >> THEN << >>
    ELSE (IF Contains(url, Head(blocked)) THEN <<BlockedMsg(url)>> ELSE << >>)
         \o BlockedIssues(url, Tail(blocked))

\* lines 1017-1030: the loop over the responses
RECURSIVE NetworkIssues(_, _)
NetworkIssues(responses, blocked) ==
    IF responses = << >> THEN << >>
    ELSE LET r == Head(responses)
         IN (IF r.status >= 400 THEN <<StatusMsg(r.status, r.url)>> ELSE << >>)
            \o BlockedIssues(r.url, blocked)
            \o NetworkIssues(Tail(responses), blocked)

\* summarizeNetwork(responses, blocked, logger): the issues and the log
summarizeNetwork(responses, blocked, l) ==
    LET issues == NetworkIssues(responses, blocked)
    IN [issues |-> issues,
        log |-> IF Len(issues) > 0
                THEN warn(l, "network", "issues detected") ELSE l]

\* Run at line 745, for every list of responses and of blocked hosts
InitNetwork ==
    /\ \E b \in SeqsUpTo(Hosts, MaxBlocked) :
          input = [DefaultOptions EXCEPT !.BlockedHosts = b]
    /\ opts = input
    /\ pc = "manifest"
    /\ err = "running"
    /\ log = << >>
    /\ fs = [NoFiles EXCEPT !.runDir = TRUE, !.logFile = "open"]
    /\ sess = [NoSession EXCEPT !.driverInstalled = TRUE, !.driver = "running",
                                !.ctx = "closed", !.page = "closed",
                                !.initScript = TRUE, !.navigated = TRUE]
    /\ loc = NoLocals
    /\ stepIdx = 0
    /\ trail = << >>
    /\ faults = 0
    /\ \E rs \in SeqsUpTo([status : Statuses, url : Urls], MaxResponses) :
          env = [kind |-> "network", responses |-> rs, summarized |-> FALSE,
                 issues |-> << >>]

\* Run, line 745: the call of summarizeNetwork
SummarizeNetwork ==
    /\ env.kind = "network"
    /\ ~env.summarized
    /\ LET s == summarizeNetwork(env.responses, opts.BlockedHosts, log)
       IN /\ log' = s.log
          /\ env' = [env EXCEPT !.summarized = TRUE, !.issues = s.issues]
    /\ UNCHANGED <<input, opts, pc, err, fs, sess, loc, stepIdx, trail, faults>>

NextNetwork == SummarizeNetwork

SpecNetwork == InitNetwork /\ [][NextNetwork]_vars

----------------------------------------------------------------------------
(* Run, lines 531-574, called several times in one workspace: the HTTP     *)
(* server calls Run from the goroutine of each POST /v1/runs request       *)
(* (handleRuns), so the calls interleave.  The run id is the reading of    *)
(* the wall clock, time.Now().UnixNano(), at line 531.                     *)

MaxCalls == 2    \* calls of Run in the workspace
MaxClock == 2    \* readings the clock can advance through

Calls == 1..MaxCalls

NoCall == [pc |-> "idle", runID |-> -1]

InitRuns ==
    /\ input = DefaultOptions
    /\ opts = input
    /\ pc = "validate"
    /\ err = "running"
    /\ log = << >>
    /\ fs = NoFiles
    /\ sess = NoSession
    /\ loc = NoLocals
    /\ stepIdx = 0
    /\ trail = << >>
    /\ faults = 0
    /\ env = [kind |-> "runs", clock |-> 0,
              calls |-> [c \in Calls |-> NoCall],
              runDirs |-> {},       \* <workspace>/runs/<id> that exist
              logOwner |-> << >>,   \* who created runs/<id>/logs/runner.ndjson
              profiles |-> {}]      \* profile directories handed to a browser

HelperOnly == UNCHANGED <<input, opts, pc, err, log, fs, sess, loc, stepIdx,
                          trail, faults>>

\* the wall clock advances between two readings, or does not
ClockTick ==
    /\ env.kind = "runs"
    /\ env.clock < MaxClock
    /\ env' = [env EXCEPT !.clock = @ + 1]
    /\ HelperOnly

\* line 531: runID := fmt.Sprintf("%x", time.Now().UnixNano())
GenerateRunID(c) ==
    /\ env.kind = "runs"
    /\ env.calls[c].pc = "idle"
    /\ env' = [env EXCEPT !.calls[c] = [pc |-> "mkdirs", runID |-> env.clock]]
    /\ HelperOnly

\* lines 532-540: os.MkdirAll of artifacts and logs, which succeeds whether
\* or not the directories exist
CreateRunDirs(c) ==
    /\ env.kind = "runs"
    /\ env.calls[c].pc = "mkdirs"
    /\ env' = [env EXCEPT !.calls[c].pc = "log",
                          !.runDirs = @ \cup {env.calls[c].runID}]
    /\ HelperOnly

\* lines 542-548: os.Create(logPath), which truncates an existing file
CreateLog(c) ==
    /\ env.kind = "runs"
    /\ env.calls[c].pc = "log"
    /\ env' = [env EXCEPT
                 !.calls[c].pc = "profile",
                 !.logOwner = [id \in DOMAIN env.logOwner \cup
                                      {env.calls[c].runID} |->
                               IF id = env.calls[c].runID THEN c
                               ELSE env.logOwner[id]]]
    /\ HelperOnly

\* lines 570-574: the default profile directory is named after the run id
\* and removed before the launch
ResetProfile(c) ==
    /\ env.kind = "runs"
    /\ env.calls[c].pc = "profile"
    /\ env' = [env EXCEPT !.calls[c].pc = "launched",
                          !.profiles = @ \cup {env.calls[c].runID}]
    /\ HelperOnly

NextRuns ==
    \/ ClockTick
    \/ \E c \in Calls : GenerateRunID(c)
    \/ \E c \in Calls : CreateRunDirs(c)
    \/ \E c \in Calls : CreateLog(c)
    \/ \E c \in Calls : ResetProfile(c)

SpecRuns == InitRuns /\ [][NextRuns]_vars

----------------------------------------------------------------------------
(* The HTTP server (cmd/lab serve): withCORS, the routes of server.routes  *)
(* and authMiddleware.authenticate, for one request                        *)

MaxKey == 2    \* length of an API key or of the token a client sends

KeyAlphabet == {"k", "x"}

Tokens == UNION {[1..n -> KeyAlphabet] : n \in 0..MaxKey}

BearerPrefix == <<"B", "e", "a", "r", "e", "r", " ">>

\* what a client puts before the token in its Authorization header
SentPrefixes ==
    {<< >>, BearerPrefix, <<"b", "e", "a", "r", "e", "r", " ">>,
     <<"B", "e", "a", "r", "e", "r">>, <<"B", "a", "s", "i", "c", " ">>}

Methods == {"GET", "POST", "OPTIONS"}

Paths == {"/health", "/v1/runs", "/v1/runs/abc", "/v1/extensions"}

\* a prefix test that accepts every string
HasPrefixAlways(cs, p) == TRUE

\* strings.HasPrefix
HasPrefix(cs, p) == Len(cs) >= Len(p) /\ SubSeq(cs, 1, Len(p)) = p

\* strings.TrimPrefix
TrimPrefix(cs, p) ==
    IF Len(cs) >= Len(p) /\ SubSeq(cs, 1, Len(p)) = p
    THEN SubSeq(cs, Len(p) + 1, Len(cs)) ELSE cs

\* subtle.ConstantTimeCompare(x, y) == 1
ConstantTimeCompare(x, y) == Len(x) = Len(y) /\ \A j \in 1..Len(x) : x[j] = y[j]

\* authMiddleware.authenticate: TRUE if the wrapped handler is called, FALSE
\* if the request is answered 401
authenticate(apiKey, auth) ==
    IF apiKey = << >> THEN TRUE
    ELSE IF auth = << >> THEN FALSE
    ELSE IF ~HasPrefix(auth, BearerPrefix) THEN FALSE
    ELSE ConstantTimeCompare(TrimPrefix(auth, BearerPrefix), apiKey)

Reply(status, handler, ran, wrote) ==
    [status |-> status, handler |-> handler, ran |-> ran, wrote |-> wrote]

\* server.handleRuns: runner.Run is called for a POST whose body decodes
handleRuns(method, bodyOk) ==
    IF method # "POST" THEN Reply(405, "handleRuns", FALSE, FALSE)
    ELSE IF ~bodyOk THEN Reply(400, "handleRuns", FALSE, FALSE)
    ELSE Reply(200, "handleRuns", TRUE, FALSE)

\* server.handleExtensions: a file is created for a POST with a valid upload
handleExtensions(method, bodyOk) ==
    IF method # "POST" THEN Reply(405, "handleExtensions", FALSE, FALSE)
    ELSE IF ~bodyOk THEN Reply(400, "handleExtensions", FALSE, FALSE)
    ELSE Reply(200, "handleExtensions", FALSE, TRUE)

\* withCORS, then the mux of server.routes
ServeHTTP(apiKey, method, path, auth, bodyOk) ==
    IF method = "OPTIONS" THEN Reply(200, "none", FALSE, FALSE)
    ELSE IF path = "/health" THEN Reply(200, "health", FALSE, FALSE)
    ELSE IF path = "/v1/runs"
    THEN IF authenticate(apiKey, auth)
         THEN handleRuns(method, bodyOk)
         ELSE Reply(401, "none", FALSE, FALSE)
    ELSE IF path = "/v1/extensions"
    THEN IF authenticate(apiKey, auth)
         THEN handleExtensions(method, bodyOk)
         ELSE Reply(401, "none", FALSE, FALSE)
    ELSE Reply(200, "handleRunByID", FALSE, FALSE)

InitServer ==
    /\ input = DefaultOptions
    /\ opts = input
    /\ pc = "validate"
    /\ err = "running"
    /\ log = << >>
    /\ fs = NoFiles
    /\ sess = NoSession
    /\ loc = NoLocals
    /\ stepIdx = 0
    /\ trail = << >>
    /\ faults = 0
    /\ \E k \in Tokens, m \in Methods, p \in Paths, sp \in SentPrefixes,
          t \in Tokens, b \in Bools :
          env = [kind |-> "server", apiKey |-> k, method |-> m, path |-> p,
                 auth |-> sp \o t, bodyOk |-> b, served |-> FALSE,
                 reply |-> Reply(0, "none", FALSE, FALSE)]

\* the server answers the request
Serve ==
    /\ env.kind = "server"
    /\ ~env.served
    /\ env' = [env EXCEPT
                 !.served = TRUE,
                 !.reply = ServeHTTP(env.apiKey, env.method, env.path,
                                     env.auth, env.bodyOk)]
    /\ HelperOnly

NextServer == Serve

SpecServer == InitServer /\ [][NextServer]_vars

----------------------------------------------------------------------------
(* Extension upload: sanitizeFilename and server.handleExtensions          *)

MaxStem == 2   \* length of the part of an uploaded name before its extension

\* directory parts a client can put in front of the name
DirParts ==
    {<< >>, <<"/">>, <<"a", "/">>, <<".", ".", "/">>, <<".", "/">>,
     <<"a", ".", ".", "/">>}

StemAlphabet == {"a", "."}

Stems == UNION {[1..n -> StemAlphabet] : n \in 0..MaxStem}

\* what follows the stem
Endings ==
    {<< >>, <<".", "z", "i", "p">>, <<".", "c", "r", "x">>,
     <<".", "x", "p", "i">>, <<".", "Z", "I", "P">>, <<".", "e", "x", "e">>,
     <<".", "z", "i", "p", "/">>, <<".", "z", "i", "p", ".">>,
     <<".", "z", "i">>, <<".", "z", "i", "p", "a">>}

Filenames == {d \o s \o e : d \in DirParts, s \in Stems, e \in Endings}

AllowedExts ==
    {<<".", "z", "i", "p">>, <<".", "c", "r", "x">>, <<".", "x", "p", "i">>}

\* the string without its trailing slashes
RECURSIVE StripTrailingSlashes(_)
StripTrailingSlashes(cs) ==
    IF cs # << >> /\ cs[Len(cs)] = "/"
    THEN StripTrailingSlashes(SubSeq(cs, 1, Len(cs) - 1))
    ELSE cs

\* index of the last slash of cs, 0 if there is none
LastSlash(cs) ==
    IF \E k \in 1..Len(cs) : cs[k] = "/"
    THEN CHOOSE k \in 1..Len(cs) :
             cs[k] = "/" /\ \A j \in (k + 1)..Len(cs) : cs[j] # "/"
    ELSE 0

\* a base name that keeps the directories
BaseKeepsDirs(cs) == cs

\* filepath.Base, on the characters of an arbitrary path
BaseOf(cs) ==
    IF cs = << >> THEN <<".">>
    ELSE IF StripTrailingSlashes(cs) = << >> THEN <<"/">>
    ELSE SubSeq(StripTrailingSlashes(cs),
                LastSlash(StripTrailingSlashes(cs)) + 1,
                Len(StripTrailingSlashes(cs)))

\* filepath.Ext: from the last dot of the last element
Ext(cs) ==
    IF \E k \in (LastSlash(cs) + 1)..Len(cs) : cs[k] = "."
    THEN SubSeq(cs,
                CHOOSE k \in (LastSlash(cs) + 1)..Len(cs) :
                    cs[k] = "." /\ \A j \in (k + 1)..Len(cs) : cs[j] # ".",
                Len(cs))
    ELSE << >>

HexDigits ==
    <<"0", "1", "2", "3", "4", "5", "6", "7", "8", "9", "a", "b", "c", "d",
      "e", "f">>

\* hex.EncodeToString: two digits for each byte
EncodeToString(bytes) ==
    [k \in 1..(2 * Len(bytes)) |->
        IF k % 2 = 1 THEN HexDigits[(bytes[(k + 1) \div 2] \div 16) + 1]
                     ELSE HexDigits[(bytes[k \div 2] % 16) + 1]]

\* the first eight bytes of sha256(base + time.Now().String()): the digest
\* depends on the clock, so any of these may come out
Digests == {[k \in 1..8 |-> b] : b \in {0, 10, 171, 255}}
              \cup {[k \in 1..8 |-> 16 * k + k]}

\* sanitizeFilename: the safe name, or an error
sanitizeFilename(filename, digest) ==
    IF Contains(BaseOf(filename), <<".", ".">>)
           \/ HasPrefix(BaseOf(filename), <<".">>)
    THEN [err |-> "invalid filename", name |-> << >>]
    ELSE IF Ext(BaseOf(filename)) \notin AllowedExts
    THEN [err |-> "invalid extension", name |-> << >>]
    ELSE [err |-> "", name |-> EncodeToString(digest) \o Ext(BaseOf(filename))]

UploadFaults == {"none", "mkdir", "create", "copy"}

InitUpload ==
    /\ input = DefaultOptions
    /\ opts = input
    /\ pc = "validate"
    /\ err = "running"
    /\ log = << >>
    /\ fs = NoFiles
    /\ sess = NoSession
    /\ loc = NoLocals
    /\ stepIdx = 0
    /\ trail = << >>
    /\ faults = 0
    /\ \E f \in Filenames :
          env = [kind |-> "upload", filename |-> f, served |-> FALSE,
                 status |-> 0, safeName |-> << >>, extensions |-> {}]

\* POST /v1/extensions with a file part named env.filename; extensions is
\* the set of names created in <workspace>/extensions
HandleExtensions ==
    /\ env.kind = "upload"
    /\ ~env.served
    /\ \E digest \in Digests, fault \in UploadFaults :
          LET s == sanitizeFilename(env.filename, digest) IN
          env' = [env EXCEPT
                    !.served = TRUE,
                    !.status = IF s.err # "" THEN 400
                               ELSE IF fault = "none" THEN 200 ELSE 500,
                    !.safeName = s.name,
                    !.extensions =
                        IF s.err = "" /\ fault \in {"none", "copy"}
                        THEN {s.name} ELSE {}]
    /\ HelperOnly

NextUpload == HandleExtensions

SpecUpload == InitUpload /\ [][NextUpload]_vars

----------------------------------------------------------------------------
(* userscript.Parse: the metadata block of a userscript, line by line      *)

MaxLines == 4   \* number of lines of a userscript file

StartMarker ==
    <<"/", "/", " ", "=", "=", "U", "s", "e", "r", "S", "c", "r", "i", "p",
      "t", "=", "=">>

EndMarker ==
    <<"/", "/", " ", "=", "=", "/", "U", "s", "e", "r", "S", "c", "r", "i",
      "p", "t", "=", "=">>

KeyName == <<"n", "a", "m", "e">>
KeyNamespace == <<"n", "a", "m", "e", "s", "p", "a", "c", "e">>
KeyVersion == <<"v", "e", "r", "s", "i", "o", "n">>
KeyDescription ==
    <<"d", "e", "s", "c", "r", "i", "p", "t", "i", "o", "n">>
KeyMatch == <<"m", "a", "t", "c", "h">>
KeyInclude == <<"i", "n", "c", "l", "u", "d", "e">>
KeyExclude == <<"e", "x", "c", "l", "u", "d", "e">>
KeyRunAt == <<"r", "u", "n", "-", "a", "t">>
KeyGrant == <<"g", "r", "a", "n", "t">>

\* the lines a file is made of: the two markers, @name, @match, @version
\* and @namespace lines with one space after the slashes, an @name line
\* with more white space around its value, an @name line with no space
\* after the slashes, and an @name line without a value
ScriptLines ==
    {StartMarker, EndMarker,
     <<"/", "/", " ", "@">> \o KeyName \o <<" ", "A">>,
     <<"/", "/", " ", "@">> \o KeyName \o <<" ", " ", "B", " ">>,
     <<"/", "/", "@">> \o KeyName \o <<" ", "A">>,
     <<"/", "/", " ", "@">> \o KeyName,
     <<"/", "/", " ", "@">> \o KeyMatch \o <<" ", "A">>,
     <<"/", "/", " ", "@">> \o KeyMatch \o <<" ", "B">>,
     <<"/", "/", " ", "@">> \o KeyVersion \o <<" ", "A">>,
     <<"/", "/", " ", "@">> \o KeyNamespace \o <<" ", "B">>}

ScriptFiles == UNION {[1..n -> ScriptLines] : n \in 0..MaxLines}

\* strings.Fields: the maximal runs of characters that are not white space
RECURSIVE Fields(_)
Fields(cs) ==
    IF TrimLeft(cs) = << >> THEN << >>
    ELSE LET t == TrimLeft(cs)
             stop == CHOOSE k \in 2..(Len(t) + 1) :
                         /\ k = Len(t) + 1 \/ IsSpace(t[k])
                         /\ \A j \in 1..(k - 1) : ~IsSpace(t[j])
         IN <<SubSeq(t, 1, stop - 1)>> \o Fields(SubSeq(t, stop, Len(t)))

NoMeta ==
    [Name |-> << >>, Namespace |-> << >>, Version |-> << >>,
     Description |-> << >>, Match |-> << >>, Include |-> << >>,
     Exclude |-> << >>, RunAt |-> << >>, Grants |-> << >>, Raw |-> << >>]

\* the value with the first field's text cut off only where the line
\* starts with "// " and that field
ValueOfLine(line, field) ==
    TrimSpace(TrimPrefix(line, <<"/", "/", " ">> \o field))

\* Parse, lines 55-80: one line inside the block
MetaLine(meta, line) ==
    LET parts == Fields(TrimPrefix(line, <<"/", "/">>)) IN
    IF Len(parts) < 2 \/ ~HasPrefix(parts[1], <<"@">>) THEN meta
    ELSE LET key == TrimPrefix(parts[1], <<"@">>)
             val == ValueOfLine(line, parts[1])
         IN CASE key = KeyName -> [meta EXCEPT !.Name = val]
              [] key = KeyNamespace -> [meta EXCEPT !.Namespace = val]
              [] key = KeyVersion -> [meta EXCEPT !.Version = val]
              [] key = KeyDescription -> [meta EXCEPT !.Description = val]
              [] key = KeyMatch -> [meta EXCEPT !.Match = Append(@, val)]
              [] key = KeyInclude -> [meta EXCEPT !.Include = Append(@, val)]
              [] key = KeyExclude -> [meta EXCEPT !.Exclude = Append(@, val)]
              [] key = KeyRunAt -> [meta EXCEPT !.RunAt = val]
              [] key = KeyGrant -> [meta EXCEPT !.Grants = Append(@, val)]
              [] OTHER -> meta

\* Parse, lines 40-81: the scanner loop from line k on
RECURSIVE Scan(_, _, _)
Scan(lines, k, st) ==
    IF k > Len(lines) THEN st
    ELSE LET line == lines[k]
             st1 == [st EXCEPT !.raw = @ \o line \o <<"\n">>]
         IN IF HasPrefix(line, StartMarker)
            THEN Scan(lines, k + 1, [st1 EXCEPT !.in = TRUE])
            ELSE IF HasPrefix(line, EndMarker)
            THEN [st1 EXCEPT !.in = FALSE]
            ELSE IF ~st1.in
            THEN Scan(lines, k + 1, st1)
            ELSE Scan(lines, k + 1,
                      [st1 EXCEPT !.meta = MetaLine(@, line)])

ParseFaults == {"none", "open", "scan"}

\* userscript.Parse on a file holding the given lines
Parse(lines, fault) ==
    LET st == Scan(lines, 1, [meta |-> NoMeta, in |-> FALSE, raw |-> << >>])
    IN IF fault = "open" THEN [err |-> "open", meta |-> NoMeta]
       ELSE IF fault = "scan" THEN [err |-> "scan", meta |-> NoMeta]
       ELSE IF st.meta.Name = << >>
       THEN [err |-> "missing @name in userscript metadata",
             meta |-> NoMeta]
       ELSE [err |-> "", meta |-> [st.meta EXCEPT !.Raw = st.raw]]

InitParse ==
    /\ input = DefaultOptions
    /\ opts = input
    /\ pc = "validate"
    /\ err = "running"
    /\ log = << >>
    /\ fs = NoFiles
    /\ sess = NoSession
    /\ loc = NoLocals
    /\ stepIdx = 0
    /\ trail = << >>
    /\ faults = 0
    /\ \E f \in ScriptFiles :
          env = [kind |-> "parse", lines |-> f, parsed |-> FALSE,
                 fault |-> "none", res |-> [err |-> "", meta |-> NoMeta]]

ParseScript ==
    /\ env.kind = "parse"
    /\ ~env.parsed
    /\ \E fault \in ParseFaults :
          env' = [env EXCEPT !.parsed = TRUE, !.fault = fault,
                             !.res = Parse(env.lines, fault)]
    /\ HelperOnly

NextParse == ParseScript

SpecParse == InitParse /\ [][NextParse]_vars

----------------------------------------------------------------------------
(* The response listener of Run (lines 597-627, 720-745) next to the       *)
(* browser, which raises response events for as long as the context is     *)
(* open                                                                    *)

MaxEvents == 3   \* response events the browser raises in one session

\* the responses the browser raises: a success and a failure on a host that
\* can be on the blocked list
ObservedResponses ==
    {[status |-> 200, url |-> <<"c", "/">>],
     [status |-> 404, url |-> <<"b", "/">>]}

InitObserver ==
    /\ input \in {[DefaultOptions EXCEPT !.BlockedHosts = b] :
                      b \in SeqsUpTo(Hosts, 1)}
    /\ opts = input
    /\ pc = "validate"
    /\ err = "running"
    /\ log = << >>
    /\ fs = NoFiles
    /\ sess = NoSession
    /\ loc = NoLocals
    /\ stepIdx = 0
    /\ trail = << >>
    /\ faults = 0
    /\ env = [kind |-> "observer",
              at |-> "launch",     \* launch, listen, session, close,
                                   \* classify, done
              ctx |-> "none",
              listening |-> FALSE,
              emitted |-> << >>,   \* every response the browser raised
              responses |-> << >>, \* the slice the listener appends to
              classified |-> << >>, \* the slice summarizeNetwork was given
              issues |-> << >>]

\* the browser raises a response event; the callback of lines 620-622 runs
\* if it is registered
EmitResponse ==
    /\ env.kind = "observer"
    /\ env.ctx = "open"
    /\ Len(env.emitted) < MaxEvents
    /\ \E r \in ObservedResponses :
          env' = [env EXCEPT
                    !.emitted = Append(@, r),
                    !.responses = IF env.listening THEN Append(@, r) ELSE @]
    /\ HelperOnly

\* line 597: LaunchPersistentContext succeeded
ObserverLaunch ==
    /\ env.kind = "observer"
    /\ env.at = "launch"
    /\ env' = [env EXCEPT !.at = "listen", !.ctx = "open"]
    /\ HelperOnly

\* lines 603-622: extension detection, RouteFromHAR, then ctx.OnResponse
ObserverListen ==
    /\ env.kind = "observer"
    /\ env.at = "listen"
    /\ env' = [env EXCEPT !.at = "session", !.listening = TRUE]
    /\ HelperOnly

\* lines 624-718: the page is opened, navigated, driven and captured
ObserverSession ==
    /\ env.kind = "observer"
    /\ env.at = "session"
    /\ env' = [env EXCEPT !.at = "close"]
    /\ HelperOnly

\* lines 720-722: ctx.Close(); a failure is logged and the run goes on
ObserverCloseContext ==
    /\ env.kind = "observer"
    /\ env.at = "close"
    /\ \E closed \in Bools :
          /\ env' = [env EXCEPT !.at = "classify",
                                !.ctx = IF closed THEN "closed" ELSE @]
          /\ log' = IF closed THEN log
                    ELSE warn(log, "runner", "close context")
    /\ UNCHANGED <<input, opts, pc, err, fs, sess, loc, stepIdx, trail,
                   faults>>

\* line 745: summarizeNetwork(responses, opts.BlockedHosts, logger)
ObserverClassify ==
    /\ env.kind = "observer"
    /\ env.at = "classify"
    /\ LET s == summarizeNetwork(env.responses, opts.BlockedHosts, log) IN
       /\ env' = [env EXCEPT !.at = "done",
                             !.classified = env.responses,
                             !.issues = s.issues]
       /\ log' = s.log
    /\ UNCHANGED <<input, opts, pc, err, fs, sess, loc, stepIdx, trail,
                   faults>>

\* the deferred ctx.Close() of line 601, when Run returns
ObserverReturn ==
    /\ env.kind = "observer"
    /\ env.at = "done"
    /\ env.ctx = "open"
    /\ env' = [env EXCEPT !.ctx = "closed"]
    /\ HelperOnly

NextObserver ==
    \/ EmitResponse
    \/ ObserverLaunch
    \/ ObserverListen
    \/ ObserverSession
    \/ ObserverCloseContext
    \/ ObserverClassify
    \/ ObserverReturn

SpecObserver == InitObserver /\ [][NextObserver]_vars

----------------------------------------------------------------------------
(* ndjsonLogger.write (lines 790-796) on the file behind its bufio.Writer: *)
(* the errors of Write, WriteByte and Flush are dropped, and a             *)
(* bufio.Writer that failed once accepts no more data                      *)

MaxLogEvents == 3   \* events a run emits

LogEvents ==
    {LogLine("info", "runner", "installing playwright browsers"),
     LogLine("info", "browser", "navigating"),
     LogLine("warn", "assert", "toggle button not found")}

\* what the operating system does with the bytes Flush hands it
FlushOutcomes == {"written", "short", "failed"}

InitLog ==
    /\ input = DefaultOptions
    /\ opts = input
    /\ pc = "validate"
    /\ err = "running"
    /\ log = << >>
    /\ fs = [NoFiles EXCEPT !.runDir = TRUE, !.logFile = "open"]
    /\ sess = NoSession
    /\ loc = NoLocals
    /\ stepIdx = 0
    /\ trail = << >>
    /\ faults = 0
    /\ env = [kind |-> "log",
              file |-> << >>,      \* runner.ndjson, line by line
              failed |-> FALSE,    \* the bufio.Writer holds an error
              returned |-> FALSE]  \* Run returned (fatally or not)

\* logger.info / logger.warn called by Run: log is the sequence of events
\* emitted, env.file what reached runner.ndjson
LoggerWrite ==
    /\ env.kind = "log"
    /\ ~env.returned
    /\ Len(log) < MaxLogEvents
    /\ \E e \in LogEvents, out \in FlushOutcomes :
          /\ log' = Append(log, e)
          /\ env' = [env EXCEPT
                       !.file =
                           IF env.failed \/ out = "failed" THEN @
                           ELSE IF out = "short"
                           THEN Append(@, [e EXCEPT !.msg = "(cut)"])
                           ELSE Append(@, e),
                       !.failed = env.failed \/ out # "written"]
    /\ UNCHANGED <<input, opts, pc, err, fs, sess, loc, stepIdx, trail,
                   faults>>

\* Run returns; the deferred logFile.Close() of line 547 runs
LoggerReturn ==
    /\ env.kind = "log"
    /\ ~env.returned
    /\ env' = [env EXCEPT !.returned = TRUE]
    /\ fs' = [fs EXCEPT !.logFile = "closed"]
    /\ UNCHANGED <<input, opts, pc, err, log, sess, loc, stepIdx, trail,
                   faults>>

NextLog == LoggerWrite \/ LoggerReturn

SpecLog == InitLog /\ [][NextLog]_vars

----------------------------------------------------------------------------
(* computeVisualHash, lines 915-933, in runs that execute at the same time *)
(* with one BaselineDir (the server runs every POST /v1/runs on its own    *)
(* goroutine): os.Stat, os.WriteFile and os.ReadFile of basePath are       *)
(* separate system calls, so the calls of different runs interleave        *)

RaceShots == {Png(<<Opaque(0, 0, 0)>>, 0), Png(<<Opaque(200, 0, 0)>>, 0)}

InitRace ==
    /\ input = [DefaultOptions EXCEPT !.BaselineDir = "baseline"]
    /\ opts = input
    /\ pc = "validate"
    /\ err = "running"
    /\ log = << >>
    /\ fs = NoFiles
    /\ sess = NoSession
    /\ loc = NoLocals
    /\ stepIdx = 0
    /\ trail = << >>
    /\ faults = 0
    /\ \E shots \in [Calls -> RaceShots], b \in {Absent} \cup RaceShots :
          env = [kind |-> "race",
                 baseline |-> b,    \* <BaselineDir>/screenshot.png
                 calls |-> [c \in Calls |->
                              [pc |-> "stat", shot |-> shots[c],
                               created |-> FALSE, compared |-> Absent,
                               diff |-> FALSE]]]

\* line 916 in run c: os.Stat(basePath)
RaceStat(c) ==
    /\ env.kind = "race"
    /\ env.calls[c].pc = "stat"
    /\ env' = [env EXCEPT !.calls[c].pc =
                 IF StatFails(env.baseline, "none") THEN "write" ELSE "read"]
    /\ HelperOnly

\* lines 917-919 in run c: os.WriteFile(basePath, data), "baseline created",
\* diff=false
RaceWrite(c) ==
    /\ env.kind = "race"
    /\ env.calls[c].pc = "write"
    /\ env' = [env EXCEPT
                 !.baseline = WriteFile(@, env.calls[c].shot, "none"),
                 !.calls[c].pc = "done",
                 !.calls[c].created = TRUE]
    /\ HelperOnly

\* lines 921-933 in run c: os.ReadFile(basePath) and the comparison of the
\* two hashes
RaceCompare(c) ==
    /\ env.kind = "race"
    /\ env.calls[c].pc = "read"
    /\ env' = [env EXCEPT
                 !.calls[c].pc = "done",
                 !.calls[c].compared = env.baseline,
                 !.calls[c].diff = HashMismatch(Sha256(env.baseline),
                                                Sha256(env.calls[c].shot))]
    /\ HelperOnly

NextRace == \E c \in Calls : RaceStat(c) \/ RaceWrite(c) \/ RaceCompare(c)

SpecRace == InitRace /\ [][NextRace]_vars

----------------------------------------------------------------------------
(* What one call of Run does to the files that existed before it outside   *)
(* its run directory: the profile directory (lines 570-597) and the        *)
(* baseline image (lines 911-920)                                          *)

\* files a profile directory kept from earlier sessions can hold
ProfileFiles == {"Cookies", "Preferences"}

\* what the browser writes into its user data directory
BrowserFiles == {"Preferences", "Local State"}

InitFrame ==
    /\ input = [DefaultOptions EXCEPT !.BaselineDir = "baseline"]
    /\ opts = input
    /\ pc = "validate"
    /\ err = "running"
    /\ log = << >>
    /\ fs = [NoFiles EXCEPT !.runDir = TRUE, !.logFile = "open"]
    /\ sess = NoSession
    /\ loc = NoLocals
    /\ stepIdx = 0
    /\ trail = << >>
    /\ faults = 0
    /\ \E given \in Bools, kept \in SUBSET ProfileFiles,
          b \in {Absent} \cup FewFiles, shot \in FewFiles :
          env = [kind |-> "frame",
                 at |-> "profile",      \* profile, launch, visual, done
                 ProfileDir |-> given,  \* opts.ProfileDir is not empty
                 \* the caller's directory and what it held before the run
                 \* (a default directory is named after the run id and new)
                 kept |-> IF given THEN kept ELSE {},
                 profile |-> IF given THEN kept ELSE {},
                 before |-> b,
                 baseline |-> b,
                 shot |-> shot]

\* lines 570-574: os.RemoveAll(profileDir), whoever supplied the directory
FrameRemoveProfile ==
    /\ env.kind = "frame"
    /\ env.at = "profile"
    /\ env' = [env EXCEPT !.at = "launch", !.profile = {}]
    /\ fs' = [fs EXCEPT !.profileRemoved = TRUE]
    /\ UNCHANGED <<input, opts, pc, err, log, sess, loc, stepIdx, trail,
                   faults>>

\* line 597: LaunchPersistentContext(profileDir, ...): the browser fills
\* the directory; the launch can fail
FrameLaunch ==
    /\ env.kind = "frame"
    /\ env.at = "launch"
    /\ \E launched \in Bools :
          env' = [env EXCEPT
                    !.at = IF launched THEN "visual" ELSE "done",
                    !.profile = IF launched THEN @ \cup BrowserFiles ELSE @]
    /\ HelperOnly

\* line 678: computeVisualHash with the run's screenshot
FrameVisual ==
    /\ env.kind = "frame"
    /\ env.at = "visual"
    /\ \E fault \in {"none", "stat", "mkdir"} :
          LET v == computeVisualHashOf(env.shot, opts, env.baseline, log,
                                       fault)
          IN /\ env' = [env EXCEPT !.at = "done", !.baseline = v.baseline]
             /\ log' = v.log
    /\ UNCHANGED <<input, opts, pc, err, fs, sess, loc, stepIdx, trail,
                   faults>>

NextFrame == FrameRemoveProfile \/ FrameLaunch \/ FrameVisual

SpecFrame == InitFrame /\ [][NextFrame]_vars

----------------------------------------------------------------------------
(* Vocabulary of the properties *)

Returned == pc = "done"
Fatal == Returned /\ err # "nil"

Last(q) == q[Len(q)]

\* the pipeline stage each position of Run's body belongs to; the creation
\* of the run directory and log file belongs to no named stage
StageOf(label) ==
    CASE label = "validate" -> "Validating"
      [] label = "resolve" -> "ResolvingScript"
      [] label = "mkdirs" -> "CreatingRunDirectory"
      [] label = "parse" -> "ResolvingScript"
      [] label = "driver" -> "InstallingEngineDriver"
      [] label = "launch" -> "LaunchingSession"
      [] label = "inject" -> "SelectingInjectionStrategy"
      [] label = "initscript" -> "SelectingInjectionStrategy"
      [] label = "navigate" -> "Navigating"
      [] label = "flow" -> "ExecutingFlow"
      [] label = "steps" -> "ExecutingFlow"
      [] label = "screenshot" -> "CapturingArtifacts"
      [] label = "visual" -> "ComparingVisuals"
      [] label = "closepage" -> "CapturingArtifacts"
      [] label = "video" -> "CapturingArtifacts"
      [] label = "closectx" -> "Finalizing"
      [] label = "manifest" -> "Finalizing"
      [] label = "finish" -> "Done"

SourceKeys == {"ScriptPath", "ScriptContent", "ScriptURL", "ScriptGitRepo"}
SourcesGiven(o) == {k \in SourceKeys : o[k] # ""}

HasLine(level, scope, msg) ==
    \E k \in DOMAIN log :
        log[k].level = level /\ log[k].scope = scope /\ log[k].msg = msg

----------------------------------------------------------------------------
(* C1: when Run has returned for a call with a non-empty target URL,       *)
(* exactly one of "run.json has been written" and "Run returned a non-nil  *)
(* error" holds.                                                           *)
C1_ManifestXorError ==
    (Returned /\ input.TargetURL # "" /\ SourcesGiven(input) # {})
        => ((fs.manifest = "written") # (err # "nil"))

(* C2: Run returns a non-nil error only from a failure in Validating,      *)
(* ResolvingScript, LaunchingSession or Navigating.                        *)
C2_FatalOnlyInFourStages ==
    Fatal => StageOf(Last(trail)) \in
                {"Validating", "ResolvingScript", "LaunchingSession",
                 "Navigating"}

(* C2, amended: Run returns a non-nil error only from a failure in         *)
(* Validating, ResolvingScript, the creation of the run directory and log  *)
(* file, InstallingEngineDriver, LaunchingSession or Navigating; a failure *)
(* in SelectingInjectionStrategy, ExecutingFlow or any later stage never   *)
(* makes Run return an error.                                              *)
C2_FatalStages ==
    Fatal => StageOf(Last(trail)) \in
                {"Validating", "ResolvingScript", "CreatingRunDirectory",
                 "InstallingEngineDriver", "LaunchingSession", "Navigating"}

\* the engine driver failed to install and Run returned that error
C2_Witness == Fatal /\ err = "playwright install" /\ Last(trail) = "driver"

(* C3: once page navigation has succeeded, Run returns a nil error and a   *)
(* Result whatever fails afterwards, and every later position of the       *)
(* pipeline has been executed.                                             *)
LaterPositions ==
    {"flow", "screenshot", "visual", "closepage", "video", "closectx",
     "manifest", "finish"}

C3_NonFatalAfterNavigation ==
    (Returned /\ sess.navigated)
        => /\ err = "nil"
           /\ loc.result
           /\ loc.built
           /\ \A p \in LaterPositions : \E k \in DOMAIN trail : trail[k] = p

\* a run whose screenshot and video conversion both failed still returned nil
C3_Witness ==
    /\ Returned /\ sess.navigated /\ err = "nil"
    /\ HasLine("warn", "artifact", "screenshot failed")
    /\ HasLine("warn", "artifact", "webp conversion failed")

(* C4: a call with a non-empty TargetURL and exactly one script source (a  *)
(* local path, inline content, a remote URL, or a git repository plus      *)
(* path) is not rejected by validation: Run goes on to resolve the source. *)
ExactlyOneSource(o) ==
    /\ Cardinality(SourcesGiven(o)) = 1
    /\ (o.ScriptGitRepo # "") <=> (o.ScriptGitPath # "")

C4_SingleSourceAccepted ==
    (Returned /\ input.TargetURL # "" /\ ExactlyOneSource(input))
        => /\ trail # <<"validate">>
           /\ err \notin {"ScriptPath is required",
                          "provide ScriptPath, ScriptContent, ScriptURL, or ScriptGitRepo"}

(* C5: a call that gives more than one script source is rejected with a    *)
(* configuration error at validation, before any fetch, clone, directory   *)
(* creation or browser work.                                               *)
MoreThanOneSource(o) == Cardinality(SourcesGiven(o)) > 1

NothingCreated == fs = NoFiles /\ sess = NoSession /\ log = << >>

C6_InvalidOptionsCreateNothing ==
    (input.TargetURL = "" \/ SourcesGiven(input) = {})
        => /\ pc \in {"validate", "done"}
           /\ NothingCreated
           /\ Returned => (err # "nil" /\ trail = <<"validate">>)

\* Run has returned for a call with a script but no target URL
C6_Witness ==
    Returned /\ input.TargetURL = "" /\ input.ScriptPath # "" /\ err # "nil"

(* C7: the stages are passed in the order Validating, ResolvingScript,     *)
(* InstallingEngineDriver, LaunchingSession, SelectingInjectionStrategy,   *)
(* Navigating, ExecutingFlow, CapturingArtifacts, ComparingVisuals,        *)
(* Finalizing, Done, never going back to an earlier stage; the run         *)
(* directory is created after ResolvingScript is over.                     *)
StageRank(stage) ==
    CASE stage = "Validating" -> 1
      [] stage = "ResolvingScript" -> 2
      [] stage = "CreatingRunDirectory" -> 3
      [] stage = "InstallingEngineDriver" -> 4
      [] stage = "LaunchingSession" -> 5
      [] stage = "SelectingInjectionStrategy" -> 6
      [] stage = "Navigating" -> 7
      [] stage = "ExecutingFlow" -> 8
      [] stage = "CapturingArtifacts" -> 9
      [] stage = "ComparingVisuals" -> 10
      [] stage = "Finalizing" -> 11
      [] stage = "Done" -> 12

Positions ==
    <<"validate", "resolve", "mkdirs", "parse", "driver", "launch", "inject",
      "initscript", "navigate", "flow", "steps", "screenshot", "visual",
      "closepage", "video", "closectx", "manifest", "finish">>

PositionRank(label) ==
    CASE label = "validate" -> 1
      [] label = "resolve" -> 2
      [] label = "mkdirs" -> 3
      [] label = "parse" -> 4
      [] label = "driver" -> 5
      [] label = "launch" -> 6
      [] label = "inject" -> 7
      [] label = "initscript" -> 8
      [] label = "navigate" -> 9
      [] label = "flow" -> 10
      [] label = "steps" -> 11
      [] label = "screenshot" -> 12
      [] label = "visual" -> 13
      [] label = "closepage" -> 14
      [] label = "video" -> 15
      [] label = "closectx" -> 16
      [] label = "manifest" -> 17
      [] label = "finish" -> 18

\* the positions a complete run with these options goes through
FullTrail(o) ==
    IF Len(o.Steps) > 0 THEN Positions
    ELSE SelectSeq(Positions, LAMBDA p : p # "steps")

C8_InstallNeedsExtensionDir ==
    sess.tmInstall # "none"
        => (AttemptsInstall(input) /\ input.ExtensionDir # "")

(* C9: whenever a run falls back to pre-navigation injection (the engine   *)
(* label selected the extension install and the install did not succeed),  *)
(* a warn event of the installer is in the log before the init script is   *)
(* registered and before the "navigating" event.                           *)
PastStrategySelection ==
    pc \notin {"validate", "resolve", "mkdirs", "parse", "driver", "launch",
               "inject"} /\ \E k \in DOMAIN trail : trail[k] = "inject"

FellBack == PastStrategySelection /\ AttemptsInstall(input) /\ ~loc.installed

C10_EveryStepRunsAndLogs ==
    /\ Len(loc.attempted) = stepIdx
    /\ Len(log) = stepIdx
    /\ \A k \in 1..stepIdx :
          /\ loc.attempted[k].step = k
          /\ log[k].scope = StepScope(k)
          /\ log[k].level = IF loc.attempted[k].passed THEN "info" ELSE "warn"
    /\ pc # "steps" => stepIdx = Len(input.Steps)

\* three steps: the first failed, the second is unknown, the third passed
C10_Witness ==
    /\ pc # "steps" /\ Len(input.Steps) = 3
    /\ ~loc.attempted[1].passed
    /\ ToLower(Chars(input.Steps[2].Action)) = Chars("hover")
    /\ loc.attempted[3].passed

----------------------------------------------------------------------------
(* C11: an assert-text (or assert-equals) step passes exactly when the     *)
(* element's text could be read and, with the white space at both ends     *)
(* removed, equals the step's value; an assert-contains step passes        *)
(* exactly when the text could be read and, so trimmed, contains the       *)
(* value; an assert-attr step passes exactly when the attribute could be   *)
(* read and equals the value; a passing step logs its "ok" line at info    *)
(* and a failing one logs one warning.                                     *)

\* t is cs without the white space at its two ends
IsTrimOf(t, cs) ==
    /\ t = << >> \/ (~IsSpace(t[1]) /\ ~IsSpace(t[Len(t)]))
    /\ \E i \in 1..(Len(cs) + 1) :
          /\ i + Len(t) - 1 <= Len(cs)
          /\ \A k \in 1..Len(t) : cs[i + k - 1] = t[k]
          /\ \A k \in 1..Len(cs) :
                (k < i \/ k > i + Len(t) - 1) => IsSpace(cs[k])

AssertHolds(action, value, content) ==
    CASE action \in {"assert-text", "assert-equals"} -> IsTrimOf(value, content)
      [] action = "assert-contains" ->
            \E t \in Texts(Len(content)) :
                IsTrimOf(t, content) /\ Contains(t, value)
      [] action = "assert-attr" -> content = value

AssertOkLine(action) ==
    CASE action \in {"assert-text", "assert-equals"} -> "assert-text ok"
      [] action = "assert-contains" -> "assert-contains ok"
      [] action = "assert-attr" -> "assert-attr ok"

C11_AssertionsPassIffMatch ==
    loc.attempted # << >> =>
        LET step == input.Steps[1]
            holds == env.readable
                     /\ AssertHolds(step.Action, step.Value, env.content)
        IN /\ loc.attempted[1].passed <=> holds
           /\ Len(log) = 1
           /\ log[1].scope = "step-1"
           /\ holds => (log[1].level = "info"
                        /\ log[1].msg = AssertOkLine(step.Action))
           /\ ~holds => log[1].level = "warn"

\* a text with white space at both ends passed assert-text
C11_Witness ==
    /\ loc.attempted # << >>
    /\ loc.attempted[1].passed
    /\ input.Steps[1].Action = "assert-text"
    /\ input.Steps[1].Value # << >>
    /\ Len(env.content) = Len(input.Steps[1].Value) + 2

----------------------------------------------------------------------------
(* Vocabulary of the comparisons: run k of a sequence of runs              *)

Runs == DOMAIN env.hist

\* what the baseline file holds after run k
BaselineAfter(k) ==
    IF k < Len(env.hist) THEN env.hist[k + 1].before ELSE env.baseline

\* the screenshot of run k was read and holds at least one byte
ShotRead(k) ==
    /\ env.hist[k].shot.kind \notin {"absent", "empty"}
    /\ env.hist[k].fault # "readShot"

HasRunLine(k, level, msg) ==
    \E j \in DOMAIN env.hist[k].res.log :
        env.hist[k].res.log[j] = LogLine(level, "visual", msg)

\* run k reported no difference: flag false, no image name, no pixels,
\* and no visual-diff.png in its artifacts directory
ReportsNoDiff(k) ==
    LET r == env.hist[k].res
    IN ~r.diff /\ r.diffImg = "" /\ r.changed = 0 /\ r.ratio = <<0, 1>>
       /\ ~r.created

----------------------------------------------------------------------------
----------------------------------------------------------------------------
\* run k changed what the baseline file holds
Rewrote(k) == BaselineAfter(k) # env.hist[k].before

\* run k compared the hash of its screenshot with the hash of the baseline
Compared(k) ==
    \/ HasRunLine(k, "info", "screenshot matches baseline")
    \/ HasRunLine(k, "warn", "screenshot hash mismatch vs baseline")

----------------------------------------------------------------------------
\* run k found a baseline, read it and its own screenshot, and no call failed
ComparedCleanly(k) ==
    /\ input.BaselineDir # ""
    /\ env.hist[k].before # Absent
    /\ ShotRead(k)
    /\ env.hist[k].fault = "none"

\* run k compared two decodable images of the same dimensions
SameSizeImages(k) ==
    /\ ComparedCleanly(k)
    /\ env.hist[k].before.kind = "png"
    /\ env.hist[k].shot.kind = "png"
    /\ env.hist[k].before.w = env.hist[k].shot.w
    /\ env.hist[k].before.h = env.hist[k].shot.h

(* C14: with a threshold of 255 or more, every comparison of a screenshot  *)
(* against an existing baseline reports diff=false.                        *)
C14_Threshold255NeverDiffs ==
    \A k \in Runs :
        (ComparedCleanly(k) /\ input.VisualDiffThreshold >= 255)
        => ~env.hist[k].res.diff

----------------------------------------------------------------------------
\* the test of one pixel on the 0-255 scale of the stored channel values
PixelChanged8(b, c, thr) ==
    \/ absDiff(b.R, c.R) > thr
    \/ absDiff(b.G, c.G) > thr
    \/ absDiff(b.B, c.B) > thr

(* C15: for two images of the same dimensions and a threshold t on the     *)
(* 0-255 per-channel scale (a negative t counting as 0), the changed-pixel *)
(* count is the number of positions at which the absolute difference of    *)
(* the R, G or B values exceeds t; alpha is not compared.                  *)
C15_ChangedCountOn255Scale ==
    \A k \in Runs :
        (SameSizeImages(k) /\ env.hist[k].before # env.hist[k].shot)
        => LET t == IF input.VisualDiffThreshold < 0 THEN 0
                    ELSE input.VisualDiffThreshold
               b == env.hist[k].before.px
               c == env.hist[k].shot.px
           IN env.hist[k].res.changed =
                Cardinality({j \in DOMAIN b : PixelChanged8(b[j], c[j], t)})

----------------------------------------------------------------------------
(* C16: when the baseline and the screenshot decode to images of           *)
(* different dimensions, the comparison logs the size-mismatch warning,    *)
(* writes no diff image, returns an empty diff image name, a count and a   *)
(* ratio of 0, and does not set the diff flag.                             *)
C16_SizeMismatchIsNotADiff ==
    \A k \in Runs :
        (/\ ComparedCleanly(k)
         /\ env.hist[k].before.kind = "png"
         /\ env.hist[k].shot.kind = "png"
         /\ env.hist[k].before.w # env.hist[k].shot.w)
        => /\ HasRunLine(k, "warn", "baseline/current size mismatch")
           /\ ReportsNoDiff(k)

----------------------------------------------------------------------------
----------------------------------------------------------------------------
\* the issue strings the two rules give for one response: one for a status
\* of 400 or more, then one if the URL contains some blocked-host entry
RuleIssues(r, blocked) ==
    (IF r.status >= 400 THEN <<StatusMsg(r.status, r.url)>> ELSE << >>)
    \o (IF \E j \in DOMAIN blocked : Contains(r.url, blocked[j])
        THEN <<BlockedMsg(r.url)>> ELSE << >>)

RECURSIVE AllRuleIssues(_, _)
AllRuleIssues(responses, blocked) ==
    IF responses = << >> THEN << >>
    ELSE RuleIssues(Head(responses), blocked)
         \o AllRuleIssues(Tail(responses), blocked)

(* C18: the issue list holds, for each response in arrival order, one      *)
(* status string exactly when the status is 400 or more, followed by one   *)
(* blocked-host string exactly when the URL contains at least one          *)
(* blocked-host entry, and nothing else.                                   *)
C18_OneIssuePerRule ==
    (env.kind = "network" /\ env.summarized)
    => env.issues = AllRuleIssues(env.responses, input.BlockedHosts)

----------------------------------------------------------------------------
(* Vocabulary of the Manifest's artifact fields                            *)

ArtifactFields ==
    {"Screenshot", "VideoWebM", "VideoWebP", "TraceZip", "HAR",
     "VisualDiffImg"}

\* whether `name`, resolved in the run's artifacts directory, is a file:
\* the recorded video lies in artifacts/video, and "." is the directory
ArtifactExists(name) ==
    CASE name = "screenshot.png" -> fs.screenshot
      [] name = "visual-diff.png" -> fs.diffImg
      [] name = "run.webp" -> fs.webp
      [] name = "trace.zip" -> fs.traceZip
      [] name = "network.har" -> fs.har
      [] OTHER -> FALSE

\* whether the capture behind a field of the Manifest produced its file
Captured(field) ==
    CASE field = "Screenshot" -> fs.screenshot
      [] field = "VideoWebM" -> fs.video
      [] field = "VideoWebP" -> fs.webp
      [] field = "TraceZip" -> fs.traceZip
      [] field = "HAR" -> fs.har
      [] field = "VisualDiffImg" -> fs.diffImg

(* C19: every artifact filename of a written Manifest that is not empty    *)
(* names, resolved in the run's artifacts directory, a file that exists.   *)
C19_ManifestNamesExistingFiles ==
    fs.manifest = "written" =>
        \A f \in ArtifactFields :
            loc.manifest[f] # "" => ArtifactExists(loc.manifest[f])

----------------------------------------------------------------------------
(* C20: in the Manifest Run builds, the field of every artifact whose      *)
(* capture failed or produced no file is the empty string.                 *)
C20_MissingArtifactFieldIsEmpty ==
    (pc = "finish" /\ loc.built) =>
        \A f \in ArtifactFields : ~Captured(f) => loc.manifest[f] = ""

----------------------------------------------------------------------------
(* C21: any two calls of Run in the same workspace, one after another or   *)
(* overlapping, have different run ids, and so different run directories,  *)
(* log files and default profile directories.                              *)
C21_RunIDsDiffer ==
    env.kind = "runs" =>
        \A c, d \in Calls :
            (c # d /\ env.calls[c].pc # "idle" /\ env.calls[d].pc # "idle")
            => env.calls[c].runID # env.calls[d].runID

----------------------------------------------------------------------------
\* the call that `fault` names was made by run k, and failed
FailedCall(k) ==
    LET h == env.hist[k]
        reached == ShotRead(k) /\ input.BaselineDir # ""
    IN CASE h.fault = "none" -> FALSE
         [] h.fault = "readShot" -> h.shot # Absent
         [] h.fault = "mkdir" -> reached
         [] h.fault = "stat" -> reached /\ h.before # Absent
         [] h.fault \in {"write", "writeTruncated"} ->
                reached /\ h.before = Absent
         [] h.fault = "readBase" -> reached /\ h.before # Absent
         [] h.fault \in {"create", "encode"} ->
                reached /\ h.before # Absent /\ h.res.changed > 0

(* C22: every failure of a call made by the visual comparison (reading     *)
(* the screenshot, creating or writing the baseline, reading it, writing   *)
(* the diff image) leaves a warn-level line in the run's log, and the run  *)
(* logs no success for the failed operation.                               *)
C22_FailuresAreWarned ==
    \A k \in Runs :
        FailedCall(k) =>
            /\ \E j \in DOMAIN env.hist[k].res.log :
                  env.hist[k].res.log[j].level = "warn"
            /\ ~HasRunLine(k, "info", "baseline created")

----------------------------------------------------------------------------
(* C23: whenever Run has returned a fatal error, the run's artifacts       *)
(* directory holds no screenshot, video, HAR, trace or diff file.          *)
C23_FatalRunLeavesNoArtifacts ==
    Fatal =>
        /\ ~fs.screenshot
        /\ ~fs.video
        /\ ~fs.webp
        /\ ~fs.har
        /\ ~fs.traceZip
        /\ ~fs.diffImg

----------------------------------------------------------------------------
\* a step of Run that does not need the transcoder process to exit
RunStep ==
    \/ RunValidate
    \/ RunResolve
    \/ RunCreateDirs
    \/ RunParseScript
    \/ RunInstallDriver
    \/ RunLaunch
    \/ RunSelectStrategy
    \/ RunInitScript
    \/ RunNavigate
    \/ RunFlow
    \/ ExecuteStep
    \/ ExecuteStepsReturn
    \/ RunScreenshot
    \/ RunVisual
    \/ RunClosePage
    \/ RunVideo
    \/ RunCloseContext
    \/ RunManifest
    \/ RunFinish

(* C24: while the video conversion waits for the transcoder, Run has a     *)
(* step of its own to take (abandoning the conversion on a timeout), so a  *)
(* transcoder that never exits cannot keep the run from finishing.         *)
C24_ConversionCanBeAbandoned ==
    (pc = "video" /\ loc.converting) => ENABLED RunStep

----------------------------------------------------------------------------
\* the request carries exactly "Bearer " followed by the configured key
ExactBearer == env.auth = BearerPrefix \o env.apiKey

Protected == env.path \in {"/v1/runs", "/v1/extensions"}

----------------------------------------------------------------------------
\* b is the last element of the path cs: a slash-free string that ends cs
\* once the trailing slashes of cs are dropped, and is preceded by a slash
\* or by nothing
IsLastElementOf(b, cs) ==
    \E n \in 1..Len(cs) :
        /\ \A j \in (n + 1)..Len(cs) : cs[j] = "/"
        /\ cs[n] # "/"
        /\ Len(b) \in 1..n
        /\ b = SubSeq(cs, n - Len(b) + 1, n)
        /\ \A j \in 1..Len(b) : b[j] # "/"
        /\ Len(b) = n \/ cs[n - Len(b)] = "/"

\* the base name of an uploaded filename ("." for the empty name, "/" for a
\* name made of slashes only)
BaseName(cs) ==
    IF cs = << >> THEN <<".">>
    ELSE IF \A j \in 1..Len(cs) : cs[j] = "/" THEN <<"/">>
    ELSE CHOOSE b \in {SubSeq(cs, a, n) : a \in 1..Len(cs), n \in 1..Len(cs)} :
             IsLastElementOf(b, cs)

EndsWith(cs, e) ==
    Len(cs) >= Len(e) /\ SubSeq(cs, Len(cs) - Len(e) + 1, Len(cs)) = e

\* sixteen hexadecimal digits followed by ext
IsHexName(cs, ext) ==
    /\ Len(cs) = 16 + Len(ext)
    /\ \A j \in 1..16 : \E d \in 1..16 : cs[j] = HexDigits[d]
    /\ SubSeq(cs, 17, Len(cs)) = ext

Suspicious(b) ==
    \/ \E j \in 1..(Len(b) - 1) : b[j] = "." /\ b[j + 1] = "."
    \/ b[1] = "."
    \/ ~\E e \in AllowedExts : EndsWith(b, e)

----------------------------------------------------------------------------
\* line k lies in the metadata block: a start marker comes before it, no
\* end marker comes before it, and it is not a marker itself
InBlock(lines, k) ==
    /\ \E j \in 1..(k - 1) : HasPrefix(lines[j], StartMarker)
    /\ \A j \in 1..k : ~HasPrefix(lines[j], EndMarker)
    /\ ~HasPrefix(lines[k], StartMarker)

\* the text of a comment line after its slashes and leading white space
CommentBody(line) ==
    IF HasPrefix(line, <<"/", "/">>)
    THEN TrimLeft(SubSeq(line, 3, Len(line))) ELSE << >>

\* the line is an "@key value" line for this key
IsKeyLine(line, key) ==
    /\ HasPrefix(CommentBody(line), <<"@">> \o key \o <<" ">>)
    /\ TrimSpace(SubSeq(CommentBody(line), Len(key) + 2,
                        Len(CommentBody(line)))) # << >>

\* the value such a line gives to its key
KeyValue(line, key) ==
    TrimSpace(SubSeq(CommentBody(line), Len(key) + 2,
                     Len(CommentBody(line))))

\* the values of the block's lines for a key, in file order
RECURSIVE BlockValues(_, _, _)
BlockValues(lines, key, k) ==
    IF k = 0 THEN << >>
    ELSE BlockValues(lines, key, k - 1)
         \o (IF InBlock(lines, k) /\ IsKeyLine(lines[k], key)
             THEN <<KeyValue(lines[k], key)>> ELSE << >>)

LastOr(s, d) == IF s = << >> THEN d ELSE s[Len(s)]

\* the lines up to and including the first end marker, each with its line
\* feed
RECURSIVE RawUpTo(_, _)
RawUpTo(lines, k) ==
    IF k > Len(lines) THEN << >>
    ELSE lines[k] \o <<"\n">>
         \o (IF HasPrefix(lines[k], EndMarker) THEN << >>
             ELSE RawUpTo(lines, k + 1))

(* C27: Parse fails iff the file cannot be read or the block holds no      *)
(* @name line; otherwise Name, Namespace and Version are the values of     *)
(* their keys' lines in the block, Match holds the values of the block's   *)
(* @match lines in file order, and Raw is the text scanned up to and       *)
(* including the end marker.                                               *)
C27_ParseReadsTheBlock ==
    (env.kind = "parse" /\ env.parsed) =>
        LET names == BlockValues(env.lines, KeyName, Len(env.lines)) IN
        /\ env.res.err # "" <=> (env.fault # "none" \/ names = << >>)
        /\ env.res.err = ""
           => /\ env.res.meta.Name = LastOr(names, << >>)
              /\ env.res.meta.Namespace =
                     LastOr(BlockValues(env.lines, KeyNamespace,
                                        Len(env.lines)), << >>)
              /\ env.res.meta.Version =
                     LastOr(BlockValues(env.lines, KeyVersion,
                                        Len(env.lines)), << >>)
              /\ env.res.meta.Match =
                     BlockValues(env.lines, KeyMatch, Len(env.lines))
              /\ env.res.meta.Raw = RawUpTo(env.lines, 1)

----------------------------------------------------------------------------
(* C28: with CaptureTrace, tracing has been started by the time the page   *)
(* has navigated, it is no longer running once the page or the context is  *)
(* closed or the Manifest is built, and a trace.zip that was captured is   *)
(* named in the Manifest's trace_zip.                                      *)
C28_TraceBracketsTheRun ==
    opts.CaptureTrace =>
        /\ sess.navigated => sess.tracing # "none"
        /\ sess.tracing = "started"
           => (sess.page = "open" /\ sess.ctx = "open" /\ ~loc.built)
        /\ (pc = "done" /\ fs.traceZip)
           => (loc.built /\ loc.manifest.TraceZip = "trace.zip")

----------------------------------------------------------------------------
(* C29: the list of responses that is classified is the sequence of        *)
(* response events the browser raised from launch to close, each once and  *)
(* in emission order; classification runs with the context closed, and no  *)
(* response is appended once the issues are computed.                      *)
C29_ClassifiedListIsTheSession ==
    (env.kind = "observer" /\ env.at = "done") =>
        /\ env.classified = env.emitted
        /\ env.responses = env.classified
        /\ env.ctx = "closed"

----------------------------------------------------------------------------
\* what the Manifest reports about the screenshot, the visual comparison and
\* the video
ManifestInputs ==
    <<fs.screenshot, loc.visualHash, loc.visualDiff, loc.visualDiffImg,
      loc.visualChanged, loc.videoPath, loc.webpPath>>

----------------------------------------------------------------------------
(* C31: at every point of a run, and so after a fatal error too,           *)
(* runner.ndjson holds exactly the events emitted so far, each as one      *)
(* complete line, in emission order, and every level is info or warn.      *)
C31_LogFileHoldsTheEmittedEvents ==
    env.kind = "log" =>
        /\ env.file = log
        /\ \A k \in DOMAIN log : log[k].level \in {"info", "warn"}

----------------------------------------------------------------------------
\* Run has executed lines 650-666
FlowExecuted == \E k \in DOMAIN trail : trail[k] = "flow"

(* C32: with an empty Steps list the flow stage makes exactly two page      *)
(* calls, a wait for the sentinel followed by one click on it, and runs no *)
(* step; with a non-empty Steps list the sentinel is neither waited for    *)
(* nor clicked at any point of the run.                                    *)
C32_DefaultFlowOnlyWithoutSteps ==
    /\ sess.calls = IF FlowExecuted /\ Len(input.Steps) = 0
                    THEN <<"WaitForSelector", "Click">> ELSE << >>
    /\ Len(input.Steps) = 0 => loc.attempted = << >>

\* the sentinel was not found and the click was attempted all the same
C32_Witness ==
    /\ FlowExecuted
    /\ Len(input.Steps) = 0
    /\ HasLine("warn", "assert", "toggle button not found")
    /\ sess.calls = <<"WaitForSelector", "Click">>

----------------------------------------------------------------------------
(* C33: visual-diff.png is created in the artifacts directory only by a    *)
(* comparison that counted at least one changed pixel; the diff image name *)
(* a comparison reports is either empty or "visual-diff.png", and it is    *)
(* non-empty only if the file was created and encoded without error; a     *)
(* comparison that counted no changed pixel creates no file and reports    *)
(* an empty name.                                                          *)
C33_HeatmapOnlyForChangedPixels ==
    \A k \in Runs :
        LET r == env.hist[k].res IN
        /\ r.created
           => /\ r.changed >= 1
              /\ env.hist[k].before.kind = "png"
              /\ env.hist[k].shot.kind = "png"
              /\ env.hist[k].before.w = env.hist[k].shot.w
              /\ env.hist[k].before.h = env.hist[k].shot.h
              /\ \E j \in DOMAIN env.hist[k].shot.px :
                    PixelChanged(env.hist[k].before.px[j],
                                 env.hist[k].shot.px[j],
                                 IF input.VisualDiffThreshold < 0 THEN 0
                                 ELSE input.VisualDiffThreshold)
        /\ r.diffImg # ""
           => /\ r.diffImg = "visual-diff.png"
              /\ r.created
              /\ env.hist[k].fault \notin {"create", "encode"}
        /\ r.changed = 0 => (~r.created /\ r.diffImg = "")

\* pixels changed and the file was created, but encoding it failed: the
\* name is empty
C33_Witness ==
    \E k \in Runs :
        /\ env.hist[k].fault = "encode"
        /\ env.hist[k].res.changed >= 1
        /\ env.hist[k].res.created
        /\ env.hist[k].res.diffImg = ""

----------------------------------------------------------------------------
(* C34: the visual-diff flag a comparison reports, which the Manifest      *)
(* records unchanged, is true if and only if its changed-pixel count is at *)
(* least 1.                                                                *)
C34_DiffFlagIffPixelsChanged ==
    \A k \in Runs :
        env.hist[k].res.diff <=> env.hist[k].res.changed >= 1

----------------------------------------------------------------------------
\* the warning of line 637 is in the log, before the "navigating" event
InjectionFailureWarned ==
    \E k \in DOMAIN log :
        /\ log[k] = LogLine("warn", "runner",
                            "init script injection failed; continuing")
        /\ \A j \in DOMAIN log : log[j].msg = "navigating" => k < j

\* C35 as stated: a Manifest is built only by a run whose script was
\* installed by the extension or registered as an init script
C35_ManifestMeansScriptInjected ==
    loc.built => (sess.tmInstall = "ok" \/ sess.initScript)

(* C35: once the page has navigated, and so whenever a Manifest is built,  *)
(* exactly one of these happened before the navigation: the extension      *)
(* install reported success; the init script was registered; or            *)
(* AddInitScript failed and the warning "init script injection failed;     *)
(* continuing" was logged, after which the run goes on all the same.       *)
C35_InjectionAttemptedOrWarned ==
    /\ loc.built => sess.navigated
    /\ sess.navigated
       => \/ /\ sess.tmInstall = "ok"
             /\ ~sess.initScript
             /\ ~InjectionFailureWarned
          \/ /\ sess.tmInstall # "ok"
             /\ sess.initScript
             /\ ~InjectionFailureWarned
          \/ /\ sess.tmInstall # "ok"
             /\ ~sess.initScript
             /\ InjectionFailureWarned

\* a Manifest was written by a run in which the install failed and the
\* init script could not be registered
C35_Witness ==
    /\ fs.manifest = "written"
    /\ sess.tmInstall = "failed"
    /\ ~sess.initScript
    /\ InjectionFailureWarned

----------------------------------------------------------------------------
(* C36: of the runs that execute at the same time with one baseline        *)
(* directory at most one writes the baseline image, and two runs with      *)
(* different screenshots never both create the baseline and both report    *)
(* diff=false.                                                             *)
C36_BaselineCreatedByOneRun ==
    env.kind = "race" =>
        \A c, d \in Calls :
            c # d =>
                /\ ~(env.calls[c].created /\ env.calls[d].created)
                /\ (/\ env.calls[c].pc = "done"
                    /\ env.calls[d].pc = "done"
                    /\ env.calls[c].shot # env.calls[d].shot)
                   => (env.calls[c].diff \/ env.calls[d].diff
                          \/ ~env.calls[c].created \/ ~env.calls[d].created)

----------------------------------------------------------------------------
----------------------------------------------------------------------------
(* C38: at every point of a run, every file a caller-supplied ProfileDir   *)
(* held before the run is still there, and a baseline image that existed   *)
(* before the run holds the bytes it held then.                            *)
C38_PreExistingFilesAreKept ==
    env.kind = "frame" =>
        /\ env.kept \subseteq env.profile
        /\ env.before # Absent => env.baseline = env.before

====
